---------------------------- MODULE Spec2Model ----------------------------
(***************************************************************************)
(* Model of the alignment / BIO-decoding / page-segmentation engine of     *)
(* atrium-nlp-enrich.                                                      *)
(*                                                                         *)
(* Text is modelled as Python sees it: a string is a sequence of           *)
(* one-character strings, a file is a sequence of lines, each line with    *)
(* its line terminator.  Canonical type names, which the program only      *)
(* looks up and compares, are TLA+ strings.                                *)
(*                                                                         *)
(* Twelve specifications share the module:                                 *)
(*   SpecDecode     get_entities_by_page walking one file line by line,    *)
(*                  then main writing the rows of the file;                *)
(*   SpecMerge      the two merge implementations (merge_single_pair and   *)
(*                  get_sorted_tsv_content + merge_and_write), followed by *)
(*                  the per-page export of the merged file or by the       *)
(*                  decoding of the merge's input and output;              *)
(*   SpecAggregate  the aggregation of one page by main;                   *)
(*   SpecNormalize  one call of parse_tag_and_type;                        *)
(*   SpecExample    a four-token document through merge, decoder and main; *)
(*   SpecNametag    parse_nametag_response walking one sentence block;     *)
(*   SpecBatch      a directory of documents under process_directory,      *)
(*                  process_pipeline or main;                              *)
(*   SpecPages      one stream of lines through the page counters of       *)
(*                  get_entities_by_page and the per-page export;          *)
(*   SpecMap        parse_nametag_response giving each sentence its page;  *)
(*   SpecSuffix     one call of get_ne_suffix;                             *)
(*   SpecExtract    the scan and the worker pool of api_0_extract_TXT.py;  *)
(*   SpecChunk      main of chunk.py cutting a text into chunks.           *)
(***************************************************************************)
EXTENDS Integers, Sequences, FiniteSets, TLC

VARIABLES
    \* ---- get_entities_by_page (src/api_util/analyze.py) ----
    dpc,          \* "read" while the for loop runs, "done" after the final flush
    st,           \* the function's locals: curr_page, curr_toks, curr_type, pages
    n_read,       \* history: number of lines read so far
    n_tok,        \* history: number of (token, tag) data lines decoded
    n_none,       \* history: number of tokens assigned to no span
    spanned,      \* history: the tokens put into a span, in reading order
    open_pages,   \* history: page index under which each token of curr_toks was read
    span_log,     \* history: for each emitted span, the page it was recorded under
                  \*          and the pages under which its tokens were read
    line_read,    \* history: the line read last, <<>> before the first
    prev,         \* history: the locals before the line read last
    n_open,       \* history: number of spans opened so far
    \* ---- the merge (src/merger_nt_udp.py, src/api_util/summarize_nt_udp.py) ----
    mpc,          \* "tsv", "conllu", "merged" (True was returned), "exported",
                  \* "analyzed", "skipped"; "idle" while no merge runs
    reader,       \* which implementation reads the tag stream
    tsv_files,    \* history: the tag files read so far, each the lines read of it
    tsv_data,     \* the list of {'token', 'tag'} records
    tsv_index,    \* the alignment cursor
    conllu_lines, \* history: the primary lines read so far
    out,          \* the lines written to the output file
    aug,          \* history: for each output line, 0 or the cursor value (1-based)
                  \*          of the tag record it was augmented with
    ents_tsv,     \* the spans decoded from the pre-merge tag stream
    ents_merged,  \* the spans decoded from the merged output
    csv_pages,    \* the per-page CSV files written from the merged output
    warnings,     \* the token-mismatch warnings printed by the merge
    \* ---- main (src/api_util/analyze.py) ----
    stats,        \* the rows written to the statistics file, header first
    \* ---- one page through the aggregation of main, lines 247-265 ----
    page_entities, \* the page's spans, as get_entities_by_page lists them
    agg_row,       \* the row written for the page, <<>> before it is written
    \* ---- one call of parse_tag_and_type ----
    tag_in,       \* the raw tag field passed in
    tag_out,      \* <<BIO tag, full type name>> returned, <<>> before the call
    \* ---- one sentence block in parse_nametag_response (src/nametag.py) ----
    nt_pc,        \* "read" while the loop over the block's lines runs, "done" after
                  \* the flush at the end of the block; "idle" while it does not run
    nt,           \* the locals: current_entity_text, current_entity_type, and
                  \* entities, the list entities_by_page[page_num]
    nt_read,      \* history: number of lines of the block read so far
    nt_line,      \* history: the line read last, <<>> before the first
    nt_prev,      \* history: the locals before the line read last
    \* ---- a batch driver: process_directory (src/merger_nt_udp.py),
    \*      process_pipeline (src/api_util/summarize_nt_udp.py), main (analyze.py) ----
    bpc,          \* "loop" while the driver's for loop runs, "end" after its last
                  \* statement; "idle" while no driver runs
    driver,       \* which driver runs
    docs,         \* the documents of the batch, in the order the loop takes them
    doc_i,        \* number of documents the loop has taken
    outputs,      \* document index -> what the merge drivers wrote for it
    log,          \* what the driver printed for each document taken
    count_processed, \* main's counter (line 236)
    tally,        \* the counts printed after the loop, <<>> before
    \* ---- one stream through both page segmenters: get_entities_by_page
    \*      (analyze.py) and process_merged_file_into_pages (summarize_nt_udp.py) ----
    seg_pc,       \* "read" while the two for loops run, "done" after the last
                  \* line; "idle" while they do not run
    seg_dec,      \* the locals of get_entities_by_page
    seg_split,    \* the locals of process_merged_file_into_pages, and the files written
    seg_trace,    \* history: for each line read, the line and the two page
                  \*          counters after it
    seg_rec,      \* history: the page index get_entities_by_page gave to each
                  \*          successive data record
    \* ---- parse_nametag_response, parts A and B (src/nametag.py and
    \*      src/api_util/nametag.py): sentences mapped to pages ----
    map_pc,       \* "scan" while the original file is read, "assign" while the
                  \* loop over the sentences runs, "done" after it; "idle" otherwise
    current_page, \* the page counter of part A
    sent_to_page, \* the list of part A: one page per '# sent_id' line
    orig_read,    \* history: number of lines of the original file read
    sent_pages,   \* history: page_num of each sentence of the response taken so far
    \* ---- one call of get_ne_suffix (src/api_util/nametag.py) ----
    tag_string,   \* the tag passed in
    ne_val,       \* <<the string returned>>, <<>> before the call
    \* ---- main of src/api_0_extract_TXT.py: the scan and the worker pool ----
    ex_pc,        \* "scan" while the directories are scanned, "pool" while the
                  \* executor runs the tasks, "done" after; "idle" otherwise
    listing,      \* the directory entries still to be scanned
    tasks,        \* the list of (file, page, path) tuples, one per scanned file
    task_pc,      \* for each task: "queued", "check", "extract", "write",
                  \* "true" or "false" (the value returned)
    txt_files,    \* the text files that exist in the output directory
    txt_writes,   \* history: for each write of a text file, the task and the path
    \* ---- main of src/api_util/chunk.py ----
    ch_pc,        \* "read" before the text is split, "loop" while the while loop
                  \* runs, "done" after the last chunk, "exit" after sys.exit(0);
                  \* "idle" while the script does not run
    text,         \* the content of the input file
    limit,        \* the word limit
    words,        \* text.split()
    ch_i,         \* the loop index i
    current_chunk, \* the buffer
    chunk_count,  \* the index of the next chunk
    chunk_files,  \* chunk index -> the content of the file chunk_<index>.txt
    cuts          \* history: for each cut in the loop, the buffer that was cut
                  \*          and cut_index

dvars == <<dpc, st, n_read, n_tok, n_none, spanned, open_pages, span_log,
           line_read, prev, n_open, stats>>
mvars == <<mpc, reader, tsv_files, tsv_data, tsv_index,
           conllu_lines, out, aug, ents_tsv, ents_merged, csv_pages,
           warnings>>
pvars == <<page_entities, agg_row, tag_in, tag_out>>
nvars == <<nt_pc, nt, nt_read, nt_line, nt_prev>>
bvars == <<bpc, driver, docs, doc_i, outputs, log, count_processed, tally>>
svars == <<seg_pc, seg_dec, seg_split, seg_trace, seg_rec>>
avars == <<map_pc, current_page, sent_to_page, orig_read, sent_pages>>
fvars == <<tag_string, ne_val>>
evars == <<ex_pc, listing, tasks, task_pc, txt_files, txt_writes>>
cvars == <<ch_pc, text, limit, words, ch_i, current_chunk, chunk_count, chunk_files, cuts>>
yvars == <<svars, avars, fvars, evars, cvars>>
xvars == <<nvars, bvars, yvars>>
vars == <<dvars, mvars, pvars, xvars>>

(***************************************************************************)
(* Bounds of the model.                                                    *)
(***************************************************************************)
MaxLines == 4
MaxTsv == 2
MaxConllu == 2
MaxEnts == 22
MaxRepeats == 1
MaxCode == 3

(***************************************************************************)
(* Python's str and list operations, on sequences of characters.           *)
(***************************************************************************)
TAB == "\t"
NL == "\n"
Whitespace == {" ", "\t", "\n"}

\* Python's None. No type name the program produces equals it.
None == "<None>"

RECURSIVE lstrip(_)
lstrip(s) ==
    IF s # <<>> /\ Head(s) \in Whitespace THEN lstrip(Tail(s)) ELSE s

RECURSIVE rstrip(_)
rstrip(s) ==
    IF s # <<>> /\ s[Len(s)] \in Whitespace
    THEN rstrip(SubSeq(s, 1, Len(s) - 1))
    ELSE s

\* str.strip()
strip(s) == rstrip(lstrip(s))

\* str.startswith(p)
startswith(s, p) == Len(s) >= Len(p) /\ SubSeq(s, 1, Len(p)) = p

\* `sub in s`
contains(s, sub) ==
    \E i \in 1..(Len(s) - Len(sub) + 1) : SubSeq(s, i, i + Len(sub) - 1) = sub

\* str.split(sep) for a one-character separator: "".split(sep) is [""].
RECURSIVE split(_, _)
split(s, sep) ==
    IF \A i \in 1..Len(s) : s[i] # sep
    THEN <<s>>
    ELSE LET k == CHOOSE i \in 1..Len(s) :
                      s[i] = sep /\ \A j \in 1..(i - 1) : s[j] # sep
         IN <<SubSeq(s, 1, k - 1)>> \o split(SubSeq(s, k + 1, Len(s)), sep)

\* str.split(sep, 1): at most two parts.
split1(s, sep) ==
    IF \A i \in 1..Len(s) : s[i] # sep
    THEN <<s>>
    ELSE LET k == CHOOSE i \in 1..Len(s) :
                      s[i] = sep /\ \A j \in 1..(i - 1) : s[j] # sep
         IN <<SubSeq(s, 1, k - 1), SubSeq(s, k + 1, Len(s))>>

\* str.split() with no separator: runs of whitespace separate, no empty part.
RECURSIVE split_ws(_)
split_ws(s) ==
    LET t == lstrip(s) IN
    IF t = <<>> THEN <<>>
    ELSE IF \A i \in 1..Len(t) : t[i] \notin Whitespace
    THEN <<t>>
    ELSE LET k == CHOOSE i \in 1..Len(t) :
                      t[i] \in Whitespace /\ \A j \in 1..(i - 1) : t[j] \notin Whitespace
         IN <<SubSeq(t, 1, k - 1)>> \o split_ws(SubSeq(t, k + 1, Len(t)))

\* sep.join(parts)
RECURSIVE join(_, _)
join(sep, parts) ==
    IF parts = <<>> THEN <<>>
    ELSE IF Len(parts) = 1 THEN parts[1]
    ELSE parts[1] \o sep \o join(sep, Tail(parts))

\* The characters of s as one TLA+ string (a dictionary key, an f-string value).
RECURSIVE Str(_)
Str(s) == IF s = <<>> THEN "" ELSE Head(s) \o Str(Tail(s))

(***************************************************************************)
(* The tag normalizer (src/api_util/analyze.py).                           *)
(***************************************************************************)
CNEC_TYPE_MAP ==
    [a |-> "Address/Number/Time (General)",
     A |-> "Complex Address/Number/Time",
     ah |-> "Street address",
     at |-> "Phone/Fax number",
     az |-> "Zip code",
     g |-> "Geographical name (General)",
     G |-> "Geographical name (General)",
     g_ |-> "Geographical name (General)",
     gu |-> "Settlement name (City/Town)",
     gl |-> "Nature/Landscape name (Mountain/River)",
     gq |-> "Urban geographical name (Street/Square)",
     gr |-> "Territorial name (State/Region)",
     gs |-> "Super-terrestrial name (Star/Planet)",
     gc |-> "States/Provinces/Regions",
     gt |-> "Continents",
     gh |-> "Hydronym (Bodies of water)",
     i |-> "Institution name (General)",
     i_ |-> "Institution name (General)",
     I |-> "Institution name (General)",
     ia |-> "Conference/Contest",
     if |-> "Company/Firm",
     io |-> "Organization/Society",
     ic |-> "Cult/Educational institution",
     m |-> "Media name (General)",
     mn |-> "Periodical name (Newspaper/Magazine)",
     ms |-> "Radio/TV station",
     mi |-> "Internet links",
     o |-> "Artifact name (General)",
     o_ |-> "Artifact name (General)",
     oa |-> "Cultural artifact (Book/Painting)",
     oe |-> "Measure unit",
     om |-> "Currency",
     or |-> "Directives, norms",
     op |-> "Product (General)",
     p |-> "Personal name (General)",
     p_ |-> "Personal name (General)",
     P |-> "Complex personal names",
     pf |-> "First name",
     ps |-> "Surname",
     pm |-> "Second name",
     ph |-> "Nickname/Pseudonym",
     pc |-> "Inhabitant name",
     pd |-> "Academic titles",
     pp |-> "Relig./myth persons",
     me |-> "Email address",
     t |-> "Time expression (General)",
     T |-> "Complex time expressions",
     td |-> "Day",
     th |-> "Hour",
     tm |-> "Month",
     ty |-> "Year",
     tf |-> "Holiday/Feast",
     tt |-> "Time block",
     n |-> "Number expression (General)",
     N |-> "Complex number expressions",
     n_ |-> "Number expression (General)",
     na |-> "Age",
     nb |-> "Volu-metric number",
     nc |-> "Cardinal number",
     ni |-> "Itemizer (1.)",
     no |-> "Ordinal number",
     ns |-> "Sport score",
     unk |-> "Unknown Type",
     O |-> "None",
     C |-> "Complex bibliographic expression"]

\* The value of the first feature that starts with "NE=", else the field itself
\* (the for loop of lines 106-109).
RECURSIVE FirstNeFeature(_, _)
FirstNeFeature(raw_tag_field, feats) ==
    IF feats = <<>> THEN raw_tag_field
    ELSE IF startswith(feats[1], <<"N", "E", "=">>) THEN split(feats[1], "=")[2]
    ELSE FirstNeFeature(raw_tag_field, Tail(feats))

\* raw_tag_field after step 1 (lines 105-109).
NeFeature(raw_tag_field) ==
    IF contains(raw_tag_field, <<"N", "E", "=">>)
    THEN FirstNeFeature(raw_tag_field, split(raw_tag_field, "|"))
    ELSE raw_tag_field

\* FullTypeName with an empty default: CNEC_TYPE_MAP.get(short_code, "").
FullTypeNameNoFallback(short_code) ==
    IF short_code \in DOMAIN CNEC_TYPE_MAP
    THEN CNEC_TYPE_MAP[short_code]
    ELSE ""

\* FullTypeName that falls back on the short code itself.
FullTypeNameRaw(short_code) ==
    IF short_code \in DOMAIN CNEC_TYPE_MAP
    THEN CNEC_TYPE_MAP[short_code]
    ELSE short_code

\* CNEC_TYPE_MAP.get(short_code, f"Unknown Code ({short_code})") (line 124).
FullTypeName(short_code) ==
    IF short_code \in DOMAIN CNEC_TYPE_MAP
    THEN CNEC_TYPE_MAP[short_code]
    ELSE "Unknown Code (" \o short_code \o ")"

\* TagAndType that looks the empty code up as it is, without the "unk" default.
TagAndTypeNoDefault(primary_tag) ==
    IF primary_tag = <<"O">> THEN <<<<"O">>, None>>
    ELSE IF startswith(primary_tag, <<"B", "-">>) \/ startswith(primary_tag, <<"I", "-">>)
    THEN <<primary_tag, FullTypeName(Str(SubSeq(primary_tag, 3, Len(primary_tag))))>>
    ELSE <<<<"O">>, None>>

\* Step 3 (lines 115-127): <<BIO tag, full type name>> of the primary tag.
TagAndType(primary_tag) ==
    IF primary_tag = <<"O">> THEN <<<<"O">>, None>>
    ELSE IF startswith(primary_tag, <<"B", "-">>) \/ startswith(primary_tag, <<"I", "-">>)
    THEN <<primary_tag,
           FullTypeName(IF Len(primary_tag) > 2
                        THEN Str(SubSeq(primary_tag, 3, Len(primary_tag)))
                        ELSE "unk")>>
    ELSE <<<<"O">>, None>>

\* parse_tag_and_type that takes the last layer of a multi-layer tag.
parse_tag_and_type_last_layer(raw_tag_field) ==
    TagAndType(split(NeFeature(raw_tag_field), "|")[Len(split(NeFeature(raw_tag_field), "|"))])

\* Returns <<BIO tag, full type name>>.
parse_tag_and_type(raw_tag_field) ==
    TagAndType(split(NeFeature(raw_tag_field), "|")[1])

(***************************************************************************)
(* get_entities_by_page (src/api_util/analyze.py): the BIO span decoder    *)
(* and the sentence-reset page segmenter, one loop iteration per line.     *)
(***************************************************************************)
SENT_ID == <<"#", " ", "s", "e", "n", "t", "_", "i", "d">>

\* The locals before the first line is read (lines 137-141).
DecoderStart ==
    [curr_page |-> 0, curr_toks |-> <<>>, curr_type |-> None, pages |-> <<>>]

\* What one line is to the loop body: kind is "page" (a marker that advances
\* the page), "comment" (a line skipped before the page default), "malformed"
\* (fewer than two fields) or "data", with tok and the parsed tag.
Parsed(kind, tok, tag_type) ==
    [kind |-> kind, tok |-> tok, tag |-> tag_type[1], full_etype |-> tag_type[2]]

NoTag == <<<<>>, None>>

\* A '# sent_id' line (lines 150-157).
ParseSentId(parts) ==
    IF Len(parts) > 1 /\ strip(parts[2]) = <<"1">>
    THEN Parsed("page", <<>>, NoTag)
    ELSE Parsed("comment", <<>>, NoTag)

\* tok and raw_tag of a data line (lines 171-181).
ParseFields(parts) ==
    IF Len(parts) < 2 THEN Parsed("malformed", <<>>, NoTag)
    ELSE IF Len(parts) = 2
    THEN Parsed("data", parts[1], parse_tag_and_type(parts[2]))
    ELSE Parsed("data", parts[2], parse_tag_and_type(parts[Len(parts)]))

\* parts: the tab split, with the whitespace split as fallback (lines 167-169).
SplitFields(line, parts) == IF Len(parts) < 2 THEN split_ws(line) ELSE parts

\* The stripped line (lines 150-181).
ParseStripped(line) ==
    IF startswith(line, SENT_ID) THEN ParseSentId(split1(line, "="))
    ELSE IF line = <<>> \/ startswith(line, <<"#">>) THEN Parsed("comment", <<>>, NoTag)
    ELSE ParseFields(SplitFields(line, split(line, TAB)))

ParseLine(line) == ParseStripped(strip(line))

\* Which path of the loop body a parsed line p takes, given the locals s
\* (the conditions of lines 184, 193 and 197).
Branch(s, p) ==
    IF p.kind # "data" THEN p.kind
    ELSE IF startswith(p.tag, <<"B">>) \/ (p.tag # <<"O">> /\ s.curr_toks = <<>>)
    THEN "begin"
    ELSE IF startswith(p.tag, <<"I">>) /\ s.curr_toks # <<>> THEN "inside"
    ELSE "outside"

\* PageDefault that leaves the page counter as it is.
PageDefaultKept(curr_page) == curr_page

\* curr_page once a data line has been reached (lines 163-164).
PageDefault(curr_page) == IF curr_page = 0 THEN 1 ELSE curr_page

\* pages.setdefault(page, []).append(span)
Append_to_page(pages, page, span) ==
    IF page \in DOMAIN pages
    THEN [pages EXCEPT ![page] = Append(@, span)]
    ELSE pages @@ (page :> <<span>>)

\* The locals with the open entity, if there is one, saved under curr_page
\* (lines 186-187, 198-199, 204-205).
SaveEntity(s) ==
    IF s.curr_toks # <<>>
    THEN [s EXCEPT !.pages = Append_to_page(@, s.curr_page,
                                 <<join(<<" ">>, s.curr_toks), s.curr_type>>)]
    ELSE s

\* Bio with an O tag that resets the open entity without saving it.
BioDropsOnOutside(s, p, b) ==
    CASE b = "begin" ->
           [SaveEntity(s) EXCEPT !.curr_toks = <<p.tok>>, !.curr_type = p.full_etype]
      [] b = "inside" -> [s EXCEPT !.curr_toks = Append(@, p.tok)]
      [] b = "outside" -> [s EXCEPT !.curr_toks = <<>>, !.curr_type = None]

\* Bio with a B tag that opens the new entity without saving the open one.
BioBeginDropsOpen(s, p, b) ==
    CASE b = "begin" ->
           [s EXCEPT !.curr_toks = <<p.tok>>, !.curr_type = p.full_etype]
      [] b = "inside" -> [s EXCEPT !.curr_toks = Append(@, p.tok)]
      [] b = "outside" ->
           IF s.curr_toks # <<>>
           THEN [SaveEntity(s) EXCEPT !.curr_toks = <<>>, !.curr_type = None]
           ELSE s

\* Bio with an O tag that saves the open entity and keeps its type.
BioKeepsTypeOnOutside(s, p, b) ==
    CASE b = "begin" ->
           [SaveEntity(s) EXCEPT !.curr_toks = <<p.tok>>, !.curr_type = p.full_etype]
      [] b = "inside" -> [s EXCEPT !.curr_toks = Append(@, p.tok)]
      [] b = "outside" ->
           IF s.curr_toks # <<>>
           THEN [SaveEntity(s) EXCEPT !.curr_toks = <<>>]
           ELSE s

\* The BIO logic on a data line, curr_page being at least 1 (lines 183-201).
Bio(s, p, b) ==
    CASE b = "begin" ->
           [SaveEntity(s) EXCEPT !.curr_toks = <<p.tok>>, !.curr_type = p.full_etype]
      [] b = "inside" -> [s EXCEPT !.curr_toks = Append(@, p.tok)]
      [] b = "outside" ->
           IF s.curr_toks # <<>>
           THEN [SaveEntity(s) EXCEPT !.curr_toks = <<>>, !.curr_type = None]
           ELSE s

\* Iterate with a page marker that starts the page count again at 1.
IterateRestartsPages(s, p, b) ==
    CASE b = "page" -> [s EXCEPT !.curr_page = 1]
      [] b = "comment" -> s
      [] b = "malformed" -> [s EXCEPT !.curr_page = PageDefault(@)]
      [] OTHER -> Bio([s EXCEPT !.curr_page = PageDefault(@)], p, b)

\* The locals after one iteration of the loop on a line parsed as p, which
\* takes path b (lines 146-201).
Iterate(s, p, b) ==
    CASE b = "page" -> [s EXCEPT !.curr_page = @ + 1]
      [] b = "comment" -> s
      [] b = "malformed" -> [s EXCEPT !.curr_page = PageDefault(@)]
      [] OTHER -> Bio([s EXCEPT !.curr_page = PageDefault(@)], p, b)

IterateParsed(s, p) == Iterate(s, p, Branch(s, p))

DecodeLine(s, line) == IterateParsed(s, ParseLine(line))

\* FlushAtEnd that leaves the entity still open at the end of the file unsaved.
FlushAtEndDropped(s) == s

\* The flush after the loop (lines 203-205).
FlushAtEnd(s) == SaveEntity(s)

\* The whole function on a file given as its lines: the returned dict.
RECURSIVE DecodeFrom(_, _)
DecodeFrom(s, lines) ==
    IF lines = <<>> THEN FlushAtEnd(s)
    ELSE DecodeFrom(DecodeLine(s, Head(lines)), Tail(lines))

get_entities_by_page(lines) == DecodeFrom(DecoderStart, lines).pages

(***************************************************************************)
(* main (src/api_util/analyze.py): the aggregate report, one row per page. *)
(***************************************************************************)
top_n == 20

\* The header row (line 230).
header ==
    <<"file", "page">> \o
    [k \in 1..(3 * top_n) |->
        CASE k % 3 = 1 -> "ne" \o ToString((k + 2) \div 3)
          [] k % 3 = 2 -> "type" \o ToString((k + 2) \div 3)
          [] OTHER -> "cnt-" \o ToString((k + 2) \div 3)]

\* Counter's update for one element: a known key is counted up in place, a
\* new key is added after the keys already there.
Increment(c, e) ==
    IF \E i \in DOMAIN c : c[i][1] = e
    THEN [i \in DOMAIN c |-> IF c[i][1] = e THEN <<e, c[i][2] + 1>> ELSE c[i]]
    ELSE Append(c, <<e, 1>>)

RECURSIVE CounterFrom(_, _)
CounterFrom(elems, c) ==
    IF elems = <<>> THEN c ELSE CounterFrom(Tail(elems), Increment(c, Head(elems)))

\* Counter(entities): the <<element, count>> items in first-encounter order.
Counter(elems) == CounterFrom(elems, <<>>)

\* An item put into a list sorted by descending count, behind the items with
\* the same count.
InsertByCount(acc, item, k) ==
    SubSeq(acc, 1, k) \o <<item>> \o SubSeq(acc, k + 1, Len(acc))

\* InsertByCount that puts the item in front of the items with the same count.
InsertBeforeTies(acc, item) ==
    InsertByCount(acc, item,
                  Cardinality({i \in DOMAIN acc : acc[i][2] > item[2]}))

InsertStable(acc, item) ==
    InsertByCount(acc, item,
                  Cardinality({i \in DOMAIN acc : acc[i][2] >= item[2]}))

\* sorted(items, key=count, reverse=True): stable.
RECURSIVE SortByCount(_, _)
SortByCount(items, acc) ==
    IF items = <<>> THEN acc
    ELSE SortByCount(Tail(items), InsertStable(acc, Head(items)))

FirstN(s, n) == SubSeq(s, 1, IF n < Len(s) THEN n ELSE Len(s))

\* Counter.most_common(n), on the items c of the counter (line 254).
most_common(c, n) == FirstN(SortByCount(c, <<>>), n)

\* row.extend([ne_text, ne_type, cnt]) for every item (lines 257-258).
RECURSIVE Extend(_, _)
Extend(r, c) ==
    IF c = <<>> THEN r
    ELSE Extend(r \o <<c[1][1][1], c[1][1][2], c[1][2]>>, Tail(c))

\* Padding that stops one triple short.
PaddingShort(missing) ==
    IF missing > 1
    THEN [k \in 1..(3 * (missing - 1)) |->
             CASE k % 3 = 1 -> <<>> [] k % 3 = 2 -> "" [] OTHER -> 0]
    ELSE <<>>

\* ["", "", 0] * missing (lines 261-263).
Padding(missing) ==
    IF missing > 0
    THEN [k \in 1..(3 * missing) |->
             CASE k % 3 = 1 -> <<>> [] k % 3 = 2 -> "" [] OTHER -> 0]
    ELSE <<>>

\* RowOf without the padding.
RowOfUnpadded(fn, page_num, c) ==
    Extend(<<split(fn, ".")[1], page_num>>, c)

\* The row of one page whose most common items are c (lines 256-263).
RowOf(fn, page_num, c) ==
    Extend(<<split(fn, ".")[1], page_num>>, c) \o Padding(top_n - Len(c))

\* The row written for a page with the spans `entities` (lines 254-265).
AggregateRow(fn, page_num, entities) ==
    RowOf(fn, page_num, most_common(Counter(entities), top_n))

\* sorted(pages_data.keys())
RECURSIVE sorted(_)
sorted(S) ==
    IF S = {} THEN <<>>
    ELSE LET m == CHOOSE x \in S : \A y \in S : x <= y
         IN <<m>> \o sorted(S \ {m})

\* RowsOf that writes a row for every page index up to the last one.
RowsOfEveryPage(fn, pages_data, page_nums) ==
    IF page_nums = <<>> THEN <<>>
    ELSE [p \in 1..page_nums[Len(page_nums)] |->
             AggregateRow(fn, p, IF p \in DOMAIN pages_data THEN pages_data[p] ELSE <<>>)]

\* The rows of one file: a page without spans gets no row (lines 247-265).
RECURSIVE RowsOf(_, _, _)
RowsOf(fn, pages_data, page_nums) ==
    IF page_nums = <<>> THEN <<>>
    ELSE (IF pages_data[Head(page_nums)] = <<>>
          THEN <<>>
          ELSE <<AggregateRow(fn, Head(page_nums), pages_data[Head(page_nums)])>>)
         \o RowsOf(fn, pages_data, Tail(page_nums))

\* The name of the file main reads.
FileName == <<"d", "o", "c", ".", "c", "o", "n", "l", "l", "u">>

(***************************************************************************)
(* The lines a decoded file is drawn from.                                 *)
(***************************************************************************)
DecLines ==
    { <<"#", " ", "s", "e", "n", "t", "_", "i", "d", " ", "=", " ", "1", NL>>,
      <<"#", " ", "s", "e", "n", "t", "_", "i", "d", " ", "=", " ", "2", NL>>,
      <<"#", " ", "t", "e", "x", "t", NL>>,
      <<NL>>,
      <<"J", "a", "n", TAB, "B", "-", "p", "s", NL>>,
      <<"N", "o", "v", "a", "k", TAB, "I", "-", "p", "s", NL>>,
      <<"j", "e", TAB, "O", NL>>,
      <<"P", "r", "a", "h", "a", TAB, "B", "-", "g", "u", "|", "B", "-", "g", NL>>,
      <<"x", NL>>,
      <<"1", TAB, "R", "i", "m", TAB, "_", TAB, "N", "E", "=", "B", "-", "g", "u", NL>>,
      <<"2", TAB, TAB, "N", "E", "=", "B", "-", "g", "u", NL>>,
      <<"E", "v", "a", TAB, "B", "-", "z", "z", NL>>,
      <<"x", TAB, "I", "-", NL>>,
      <<"a", TAB, "_", NL>> }

DecodeInit ==
    /\ dpc = "read"
    /\ st = DecoderStart
    /\ n_read = 0
    /\ n_tok = 0
    /\ n_none = 0
    /\ spanned = <<>>
    /\ open_pages = <<>>
    /\ span_log = <<>>
    /\ line_read = <<>>
    /\ prev = DecoderStart
    /\ n_open = 0
    /\ stats = <<header>>

\* One iteration of the for loop on `line`, parsed as p, which takes path b.
DecStep(line, p, b) ==
    /\ Branch(st, p) = b
    /\ st' = Iterate(st, p, b)
    /\ n_read' = n_read + 1
    /\ n_tok' = IF p.kind = "data" THEN n_tok + 1 ELSE n_tok
    /\ n_none' = IF b = "outside" THEN n_none + 1 ELSE n_none
    /\ spanned' = IF b \in {"begin", "inside"} THEN Append(spanned, p.tok) ELSE spanned
    /\ open_pages' = CASE b = "begin" -> <<PageDefault(st.curr_page)>>
                       [] b = "inside" -> Append(open_pages, PageDefault(st.curr_page))
                       [] b = "outside" -> <<>>
                       [] OTHER -> open_pages
    /\ span_log' = IF b \in {"begin", "outside"} /\ st.curr_toks # <<>>
                   THEN Append(span_log, [page |-> PageDefault(st.curr_page),
                                          tok_pages |-> open_pages])
                   ELSE span_log
    /\ line_read' = line
    /\ prev' = st
    /\ n_open' = IF b = "begin" THEN n_open + 1 ELSE n_open
    /\ UNCHANGED <<dpc, stats, mvars, pvars, xvars>>

ReadPageMarker ==
    /\ dpc = "read"
    /\ n_read < MaxLines
    /\ \E line \in DecLines : DecStep(line, ParseLine(line), "page")

ReadComment ==
    /\ dpc = "read"
    /\ n_read < MaxLines
    /\ \E line \in DecLines : DecStep(line, ParseLine(line), "comment")

ReadMalformed ==
    /\ dpc = "read"
    /\ n_read < MaxLines
    /\ \E line \in DecLines : DecStep(line, ParseLine(line), "malformed")

ReadBegin ==
    /\ dpc = "read"
    /\ n_read < MaxLines
    /\ \E line \in DecLines : DecStep(line, ParseLine(line), "begin")

ReadInside ==
    /\ dpc = "read"
    /\ n_read < MaxLines
    /\ \E line \in DecLines : DecStep(line, ParseLine(line), "inside")

ReadOutside ==
    /\ dpc = "read"
    /\ n_read < MaxLines
    /\ \E line \in DecLines : DecStep(line, ParseLine(line), "outside")


\* The file ends: the loop exits and the remaining entity is flushed.
EndOfFile ==
    /\ dpc = "read"
    /\ dpc' = "done"
    /\ st' = FlushAtEnd(st)
    /\ span_log' = IF st.curr_toks # <<>>
                   THEN Append(span_log, [page |-> st.curr_page,
                                          tok_pages |-> open_pages])
                   ELSE span_log
    /\ open_pages' = <<>>
    /\ UNCHANGED <<n_read, n_tok, n_none, spanned, line_read, prev, n_open, stats,
                   mvars, pvars, xvars>>

\* main, after get_entities_by_page has returned: one row per page of the
\* file is written to the statistics file (lines 243-265).
WriteRows ==
    /\ dpc = "done"
    /\ dpc' = "reported"
    /\ stats' = stats \o RowsOf(FileName, st.pages, sorted(DOMAIN st.pages))
    /\ UNCHANGED <<st, n_read, n_tok, n_none, spanned, open_pages, span_log,
                   line_read, prev, n_open, mvars, pvars, xvars>>

DecodeNext ==
    \/ ReadPageMarker
    \/ ReadComment
    \/ ReadMalformed
    \/ ReadBegin
    \/ ReadInside
    \/ ReadOutside
    \/ EndOfFile
    \/ WriteRows

(***************************************************************************)
(* The tag-stream readers: merge_single_pair's (src/merger_nt_udp.py lines *)
(* 11-27) and get_sorted_tsv_content (src/api_util/summarize_nt_udp.py).   *)
(***************************************************************************)
Readers == {"merge_single_pair", "get_sorted_tsv_content"}

\* The tag given to a line with a single field.
FallbackTag(r) == IF r = "merge_single_pair" THEN <<"_">> ELSE <<"O">>

\* The record appended for the fields of a non-empty line. `file` and `line`
\* say where the record was read; only merge_single_pair stores 'line'.
TsvRecord(r, parts, file, line) ==
    IF Len(parts) >= 2
    THEN [token |-> parts[1], tag |-> parts[2], file |-> file, line |-> line]
    ELSE [token |-> parts[1], tag |-> FallbackTag(r), file |-> file, line |-> line]

\* What the loop of a reader does with a stripped line: "blank" (skipped),
\* "record" or "fallback" (appended).
TsvKind(stripped, parts) ==
    IF stripped = <<>> THEN "blank"
    ELSE IF Len(parts) >= 2 THEN "record"
    ELSE "fallback"

TsvKindOfStripped(stripped) == TsvKind(stripped, split(stripped, TAB))

\* tsv_data after the loop has read `line`, which is of kind k.
TsvAppend(r, data, stripped, k, file, line) ==
    IF k \in {"record", "fallback"}
    THEN Append(data, TsvRecord(r, split(stripped, TAB), file, line))
    ELSE data

(***************************************************************************)
(* The merge loop: merge_single_pair (src/merger_nt_udp.py lines 29-81)    *)
(* and merge_and_write (src/api_util/summarize_nt_udp.py lines 68-107).    *)
(***************************************************************************)
NER_KEY == <<"N", "E", "R", "=">>

\* The valid-ID test without the '.' check: empty nodes count as tokens.
IsStandardTokenNoDot(cols) ==
    /\ Len(cols) >= 2
    /\ ~contains(cols[1], <<"-">>)

\* The valid-ID test without the '-' check: multiword ranges count as tokens.
IsStandardTokenNoDash(cols) ==
    /\ Len(cols) >= 2
    /\ ~contains(cols[1], <<".">>)

\* The valid-ID test of the token branch.
IsStandardToken(cols) ==
    /\ Len(cols) >= 2
    /\ ~contains(cols[1], <<"-">>)
    /\ ~contains(cols[1], <<".">>)

\* while len(cols) < 9: cols.append('_')
RECURSIVE FillMissing(_)
FillMissing(cols) ==
    IF Len(cols) < 9 THEN FillMissing(Append(cols, <<"_">>)) ELSE cols

\* AddToMisc overwriting the MISC column instead of appending to it.
AddToMiscOverwrite(cols, new_attr) ==
    IF Len(cols) > 9
    THEN [cols EXCEPT ![10] = new_attr]
    ELSE Append(FillMissing(cols), new_attr)

\* cols with new_attr added to the MISC column (column index 9).
AddToMisc(cols, new_attr) ==
    IF Len(cols) > 9
    THEN IF cols[10] = <<"_">>
         THEN [cols EXCEPT ![10] = new_attr]
         ELSE [cols EXCEPT ![10] = @ \o <<"|">> \o new_attr]
    ELSE Append(FillMissing(cols), new_attr)

\* NewAttr keeping only the first layer of the tag.
NewAttrFirstLayer(tsv_item) == NER_KEY \o split(tsv_item.tag, "|")[1]

\* new_attr = f"NER={tsv_item['tag']}"
NewAttr(tsv_item) == NER_KEY \o tsv_item.tag

\* MergeCols tagging the tokens beyond the tag stream as O.
MergeColsAssumeO(line, cols, data, index) ==
    IF IsStandardToken(cols)
    THEN IF index < Len(data)
         THEN [kind |-> "augment",
               text |-> join(<<TAB>>, AddToMisc(cols, NewAttr(data[index + 1]))) \o <<NL>>]
         ELSE [kind |-> "tsv_ended",
               text |-> join(<<TAB>>, AddToMisc(cols, NER_KEY \o <<"O">>)) \o <<NL>>]
    ELSE [kind |-> "non_token", text |-> line]

\* The line written for a data line with columns cols, and which branch wrote it.
MergeCols(line, cols, data, index) ==
    IF IsStandardToken(cols)
    THEN IF index < Len(data)
         THEN [kind |-> "augment",
               text |-> join(<<TAB>>, AddToMisc(cols, NewAttr(data[index + 1]))) \o <<NL>>]
         ELSE [kind |-> "tsv_ended", text |-> line]
    ELSE [kind |-> "non_token", text |-> line]

MergeStripped(line, stripped_line, data, index) ==
    IF stripped_line = <<>> \/ startswith(stripped_line, <<"#">>)
    THEN [kind |-> "comment", text |-> line]
    ELSE MergeCols(line, split(stripped_line, TAB), data, index)

\* One iteration of the loop over the primary file.
MergeLine(line, data, index) == MergeStripped(line, strip(line), data, index)

(***************************************************************************)
(* The lines the two streams are drawn from.                               *)
(***************************************************************************)
TsvLineSet ==
    { <<"W", "o", "r", "d", TAB, "T", "a", "g", TAB, "N", "E", NL>>,
      <<"P", "r", "a", "h", "a", TAB, "B", "-", "g", "u", NL>>,
      <<"J", "a", "n", TAB, "B", "-", "P", "|", "B", "-", "p", "f", TAB, "P", "|", "p", "f", NL>>,
      <<"x", NL>>,
      <<NL>> }

ConlluLineSet ==
    { <<"#", " ", "s", "e", "n", "t", "_", "i", "d", " ", "=", " ", "1", NL>>,
      <<NL>>,
      <<"1", TAB, "P", "r", "a", "h", "a", TAB, "l", TAB, "N", TAB, "_", TAB, "_",
        TAB, "0", TAB, "r", TAB, "_", TAB, "_", NL>>,
      <<"2", TAB, "J", "a", "n", TAB, "l", TAB, "N", TAB, "_", TAB, "_",
        TAB, "1", TAB, "d", TAB, "_", TAB, "S", "=", "N", NL>>,
      <<"1", "-", "2", TAB, "a", "b", TAB, "_", TAB, "_", TAB, "_", TAB, "_",
        TAB, "_", TAB, "_", TAB, "_", TAB, "_", NL>>,
      <<"2", ".", "1", TAB, "e", TAB, "_", TAB, "_", TAB, "_", TAB, "_",
        TAB, "_", TAB, "_", TAB, "_", TAB, "_", NL>>,
      <<"3", TAB, "j", "e", NL>>,
      <<"4", NL>> }

(***************************************************************************)
(* process_merged_file_into_pages (src/api_util/summarize_nt_udp.py): the  *)
(* merged file cut into one CSV file per page.  A dict is a function from  *)
(* its keys, as strings, to its values.                                    *)
(***************************************************************************)
\* d[k] = v
SetItem(d, k, v) == (k :> v) @@ d

\* One item of the MISC column into the dict (lines 123-127).
MiscItem(misc, item) ==
    IF contains(item, <<"=">>)
    THEN SetItem(misc, Str(split1(item, "=")[1]), split1(item, "=")[2])
    ELSE SetItem(misc, Str(item), <<"Y", "e", "s">>)

RECURSIVE MiscFrom(_, _)
MiscFrom(items, misc) ==
    IF items = <<>> THEN misc ELSE MiscFrom(Tail(items), MiscItem(misc, Head(items)))

parse_misc(misc_str) ==
    IF misc_str = <<"_">> \/ misc_str = <<>> THEN <<>>
    ELSE MiscFrom(split(misc_str, "|"), <<>>)

\* One item of the FEATS column into the dict (line 116).
FeatItem(feats, item) ==
    IF contains(item, <<"=">>)
    THEN SetItem(feats, Str(split1(item, "=")[1]), split1(item, "=")[2])
    ELSE feats

RECURSIVE FeatsFrom(_, _)
FeatsFrom(items, feats) ==
    IF items = <<>> THEN feats ELSE FeatsFrom(Tail(items), FeatItem(feats, Head(items)))

parse_features(feat_str) ==
    IF feat_str = <<"_">> \/ feat_str = <<>> THEN <<>>
    ELSE FeatsFrom(split(feat_str, "|"), <<>>)

\* The row of a token line (lines 189-198): the udpipe.feats.* and
\* udpipe.misc.* columns are kept as two dicts, the latter without NER.
CsvRow(page_counter, parts, misc, feats) ==
    [page_id |-> page_counter,
     token |-> parts[2],
     lemma |-> parts[3],
     position |-> parts[1],
     nameTag |-> IF "NER" \in DOMAIN misc THEN misc["NER"] ELSE <<>>,
     feats |-> feats,
     misc |-> [k \in DOMAIN misc \ {"NER"} |-> misc[k]]]

\* The locals before the first line is read (lines 162-163), and the files
\* written so far.
SplitterStart == [page_counter |-> 0, current_rows |-> <<>>, written |-> <<>>]

\* write_page_csv(current_rows, output_subdir, page_counter, page_counter):
\* nothing is written for an empty list of rows.
write_page_csv(s) ==
    IF s.current_rows # <<>>
    THEN [s EXCEPT !.written = Append(@, [page_id |-> s.page_counter,
                                          rows |-> s.current_rows])]
    ELSE s

\* A '# sent_id' line whose value is 1 (lines 169-175).
SplitBoundary(s, line) ==
    IF startswith(line, SENT_ID) /\ ParseSentId(split1(line, "=")).kind = "page"
    THEN [write_page_csv(s) EXCEPT !.current_rows = <<>>, !.page_counter = @ + 1]
    ELSE s

\* A line that is no comment and not blank (lines 180-200).
SplitToken(s, parts) ==
    IF Len(parts) < 10 \/ contains(parts[1], <<"-">>) THEN s
    ELSE [s EXCEPT
            !.page_counter = IF @ = 0 THEN 1 ELSE @,
            !.current_rows =
                Append(@, CsvRow(IF s.page_counter = 0 THEN 1 ELSE s.page_counter,
                                 parts, parse_misc(parts[10]), parse_features(parts[6])))]

\* The loop body on the stripped line (lines 169-200).
SplitStripped(s, line) ==
    IF startswith(line, <<"#">>) \/ line = <<>> THEN s
    ELSE SplitToken(s, split(line, TAB))

SplitLine(s, line) == SplitStripped(SplitBoundary(s, line), line)

RECURSIVE SplitFrom(_, _)
SplitFrom(s, lines) ==
    IF lines = <<>> THEN write_page_csv(s)
    ELSE SplitFrom(SplitLine(s, strip(Head(lines))), Tail(lines))

\* The CSV files written for a merged file given as its lines.
process_merged_file_into_pages(lines) == SplitFrom(SplitterStart, lines).written

(***************************************************************************)
(* The merge as a state machine.                                           *)
(***************************************************************************)
\* The merge does not run while a file is decoded.
MergeIdle ==
    /\ mpc = "idle"
    /\ reader = "none"
    /\ tsv_files = <<>>
    /\ tsv_data = <<>>
    /\ tsv_index = 0
    /\ conllu_lines = <<>>
    /\ out = <<>>
    /\ aug = <<>>
    /\ ents_tsv = <<>>
    /\ ents_merged = <<>>
    /\ csv_pages = <<>>
    /\ warnings = <<>>

\* One of the two implementations starts: merge_single_pair has opened its
\* tag file, get_sorted_tsv_content has listed the document's directory.
MergeInit ==
    /\ mpc = "tsv"
    /\ reader \in Readers
    /\ tsv_files = IF reader = "merge_single_pair" THEN <<<<>>>> ELSE <<>>
    /\ tsv_data = <<>>
    /\ tsv_index = 0
    /\ conllu_lines = <<>>
    /\ out = <<>>
    /\ aug = <<>>
    /\ ents_tsv = <<>>
    /\ ents_merged = <<>>
    /\ csv_pages = <<>>
    /\ warnings = <<>>

\* The lines of all tag files read so far, in reading order.
RECURSIVE Flatten(_)
Flatten(files) == IF files = <<>> THEN <<>> ELSE Head(files) \o Flatten(Tail(files))

TsvLinesRead == Len(Flatten(tsv_files))

\* get_sorted_tsv_content opens the next file of the directory, and
\* header = next(f, None) consumes its first line, whatever it holds.
SkipHeader ==
    /\ mpc = "tsv"
    /\ reader = "get_sorted_tsv_content"
    /\ TsvLinesRead < MaxTsv
    /\ \E line \in TsvLineSet : tsv_files' = Append(tsv_files, <<line>>)
    /\ UNCHANGED <<mpc, reader, tsv_data, tsv_index, conllu_lines, out, aug,
                   ents_tsv, ents_merged, csv_pages, warnings, dvars, pvars, xvars>>

\* The loop of a reader reads `line`, the next line of the current tag file,
\* as kind k.
TsvStep(line, stripped, k) ==
    /\ TsvKindOfStripped(stripped) = k
    /\ tsv_data' = TsvAppend(reader, tsv_data, stripped, k, Len(tsv_files),
                             Len(tsv_files[Len(tsv_files)]) + 1)
    /\ tsv_files' = [tsv_files EXCEPT ![Len(tsv_files)] = Append(@, line)]
    /\ UNCHANGED <<mpc, reader, tsv_index, conllu_lines, out, aug, ents_tsv,
                   ents_merged, csv_pages, warnings, dvars, pvars, xvars>>

SkipBlank ==
    /\ mpc = "tsv"
    /\ tsv_files # <<>>
    /\ TsvLinesRead < MaxTsv
    /\ \E line \in TsvLineSet : TsvStep(line, strip(line), "blank")

ReadRecord ==
    /\ mpc = "tsv"
    /\ tsv_files # <<>>
    /\ TsvLinesRead < MaxTsv
    /\ \E line \in TsvLineSet : TsvStep(line, strip(line), "record")

ReadFallback ==
    /\ mpc = "tsv"
    /\ tsv_files # <<>>
    /\ TsvLinesRead < MaxTsv
    /\ \E line \in TsvLineSet : TsvStep(line, strip(line), "fallback")

\* The tag stream is exhausted and the primary file is opened. process_pipeline
\* calls merge_and_write only when tsv_data is not empty (lines 251-254).
OpenConllu ==
    /\ mpc = "tsv"
    /\ reader = "get_sorted_tsv_content" => tsv_data # <<>>
    /\ mpc' = "conllu"
    /\ UNCHANGED <<reader, tsv_files, tsv_data, tsv_index, conllu_lines, out, aug,
                   ents_tsv, ents_merged, csv_pages, warnings, dvars, pvars, xvars>>

\* process_pipeline: no valid TSV data, the document is left out.
NoTsvData ==
    /\ mpc = "tsv"
    /\ reader = "get_sorted_tsv_content"
    /\ tsv_data = <<>>
    /\ mpc' = "skipped"
    /\ UNCHANGED <<reader, tsv_files, tsv_data, tsv_index, conllu_lines, out, aug,
                   ents_tsv, ents_merged, csv_pages, warnings, dvars, pvars, xvars>>

\* The implementation that prints a warning on a token mismatch: the merge
\* loop of src/merger_nt_udp.py (lines 51-54); merge_and_write has no such
\* statement.
WarnsOnMismatch(r) == r = "merge_single_pair"

\* stderr after one iteration of the merge loop of implementation r on a line
\* with columns cols, which took path k.
Warn(w, r, cols, k, data, index) ==
    IF k = "augment" /\ WarnsOnMismatch(r) /\ cols[2] # data[index + 1].token
    THEN Append(w, <<cols[2], data[index + 1].token>>)
    ELSE w

\* One iteration of the merge loop on `line`, whose result is m of kind k.
MergeStep(line, m, k) ==
    /\ m.kind = k
    /\ conllu_lines' = Append(conllu_lines, line)
    /\ out' = Append(out, m.text)
    /\ tsv_index' = IF k = "augment" THEN tsv_index + 1 ELSE tsv_index
    /\ aug' = Append(aug, IF k = "augment" THEN tsv_index + 1 ELSE 0)
    /\ warnings' = Warn(warnings, reader, split(strip(line), TAB), k, tsv_data, tsv_index)
    /\ UNCHANGED <<mpc, reader, tsv_files, tsv_data, ents_tsv, ents_merged, csv_pages,
                   dvars, pvars, xvars>>

CopyComment ==
    /\ mpc = "conllu"
    /\ Len(conllu_lines) < MaxConllu
    /\ \E line \in ConlluLineSet :
           MergeStep(line, MergeLine(line, tsv_data, tsv_index), "comment")

Augment ==
    /\ mpc = "conllu"
    /\ Len(conllu_lines) < MaxConllu
    /\ \E line \in ConlluLineSet :
           MergeStep(line, MergeLine(line, tsv_data, tsv_index), "augment")

CopyAfterTsvEnded ==
    /\ mpc = "conllu"
    /\ Len(conllu_lines) < MaxConllu
    /\ \E line \in ConlluLineSet :
           MergeStep(line, MergeLine(line, tsv_data, tsv_index), "tsv_ended")

CopyNonToken ==
    /\ mpc = "conllu"
    /\ Len(conllu_lines) < MaxConllu
    /\ \E line \in ConlluLineSet :
           MergeStep(line, MergeLine(line, tsv_data, tsv_index), "non_token")

\* The primary file is exhausted: the files are closed and True is returned.
FinishMerge ==
    /\ mpc = "conllu"
    /\ mpc' = "merged"
    /\ UNCHANGED <<reader, tsv_files, tsv_data, tsv_index, conllu_lines, out, aug,
                   ents_tsv, ents_merged, csv_pages, warnings, dvars, pvars, xvars>>

\* process_pipeline, after merge_and_write has returned True: the merged file
\* is cut into its pages (lines 261-263).
SplitPages ==
    /\ mpc = "merged"
    /\ reader = "get_sorted_tsv_content"
    /\ mpc' = "exported"
    /\ csv_pages' = process_merged_file_into_pages(out)
    /\ UNCHANGED <<reader, tsv_files, tsv_data, tsv_index, conllu_lines, out, aug,
                   ents_tsv, ents_merged, warnings, dvars, pvars, xvars>>

\* get_entities_by_page on the tag stream and on the merged output.
Analyze ==
    /\ mpc = "merged"
    /\ mpc' = "analyzed"
    /\ ents_tsv' = get_entities_by_page(Flatten(tsv_files))
    /\ ents_merged' = get_entities_by_page(out)
    /\ UNCHANGED <<reader, tsv_files, tsv_data, tsv_index, conllu_lines, out, aug,
                   csv_pages, warnings, dvars, pvars, xvars>>

MergeNext ==
    \/ SkipHeader
    \/ SkipBlank
    \/ ReadRecord
    \/ ReadFallback
    \/ OpenConllu
    \/ NoTsvData
    \/ CopyComment
    \/ Augment
    \/ CopyAfterTsvEnded
    \/ CopyNonToken
    \/ FinishMerge
    \/ SplitPages
    \/ Analyze

(***************************************************************************)
(* The aggregation of one page (main, lines 247-265), on span lists drawn  *)
(* from a bounded set: up to MaxEnts distinct (text, type) pairs in the    *)
(* order they are first met, and up to MaxRepeats further occurrences of   *)
(* the first or of the latest pair.                                        *)
(***************************************************************************)
Letters == <<"a", "b", "c", "d", "e", "f", "g", "h", "i", "j", "k", "l", "m",
             "n", "o", "p", "q", "r", "s", "t", "u", "v", "w", "x", "y", "z">>

\* The i-th distinct span: two spans of the same text differ in their type.
Ent(i) ==
    << <<Letters[(i + 1) \div 2]>>,
       IF i % 2 = 1 THEN CNEC_TYPE_MAP["ps"] ELSE CNEC_TYPE_MAP["pf"] >>

NDistinct(elems) == Cardinality({elems[i] : i \in DOMAIN elems})

\* No page is aggregated and no tag is normalized.
PureIdle ==
    /\ page_entities = <<>>
    /\ agg_row = <<>>
    /\ tag_in = <<>>
    /\ tag_out = <<>>

\* get_entities_by_page has listed one more span, not seen on the page before.
NewEntity ==
    /\ agg_row = <<>>
    /\ NDistinct(page_entities) < MaxEnts
    /\ page_entities' = Append(page_entities, Ent(NDistinct(page_entities) + 1))
    /\ UNCHANGED <<agg_row, tag_in, tag_out, dvars, mvars, xvars>>

\* One more occurrence of the first span of the page.
RepeatFirst ==
    /\ agg_row = <<>>
    /\ page_entities # <<>>
    /\ Len(page_entities) - NDistinct(page_entities) < MaxRepeats
    /\ page_entities' = Append(page_entities, Ent(1))
    /\ UNCHANGED <<agg_row, tag_in, tag_out, dvars, mvars, xvars>>

\* One more occurrence of the span that was new last.
RepeatLatest ==
    /\ agg_row = <<>>
    /\ NDistinct(page_entities) > 1
    /\ Len(page_entities) - NDistinct(page_entities) < MaxRepeats
    /\ page_entities' = Append(page_entities, Ent(NDistinct(page_entities)))
    /\ UNCHANGED <<agg_row, tag_in, tag_out, dvars, mvars, xvars>>

\* The loop body of main on the page: a page without spans is passed over
\* (lines 250-251), any other page gets its row.
AggregatePage ==
    /\ agg_row = <<>>
    /\ page_entities # <<>>
    /\ agg_row' = AggregateRow(FileName, 1, page_entities)
    /\ UNCHANGED <<page_entities, tag_in, tag_out, dvars, mvars, xvars>>

AggregateNext ==
    \/ NewEntity
    \/ RepeatFirst
    \/ RepeatLatest
    \/ AggregatePage

(***************************************************************************)
(* One call of parse_tag_and_type on a raw tag field drawn from a bounded  *)
(* set: a prefix followed by up to MaxCode characters.                     *)
(***************************************************************************)
TagPrefixes ==
    { <<>>, <<"B", "-">>, <<"I", "-">>,
      <<"N", "E", "=", "B", "-">>,
      <<"S", "=", "N", "|", "N", "E", "=", "I", "-">> }

CodeChars == {"g", "u", "G", "O", "N", "E", "=", "|", "-"}

Codes == UNION {[1..k -> CodeChars] : k \in 0..MaxCode}

\* The layers multi-layer tags are made of, and the raw fields that hold two
\* of them: the field of a tag file ("B-P|B-pf") and the MISC column of a
\* CoNLL-U line.
TagLayers ==
    { <<"O">>, <<"B", "-", "P">>, <<"B", "-", "p", "f">>, <<"I", "-", "g", "u">>,
      <<"B", "-">>, <<"x">> }

LayeredTags ==
    { pre \o a \o <<"|">> \o b :
        pre \in {<<>>, <<"N", "E", "=">>, <<"S", "=", "N", "|", "N", "E", "=">>},
        a \in TagLayers, b \in TagLayers }

RawTagFields == {pre \o c : pre \in TagPrefixes, c \in Codes} \cup LayeredTags

\* No page is aggregated, no tag has been passed to the normalizer yet.
NormalizeInit ==
    /\ page_entities = <<>>
    /\ agg_row = <<>>
    /\ tag_in = <<>>
    /\ tag_out = <<>>

\* The call on raw_tag_field returns tag_type.
Call(raw_tag_field, tag_type) ==
    /\ tag_in' = raw_tag_field
    /\ tag_out' = tag_type
    /\ UNCHANGED <<page_entities, agg_row, dvars, mvars, xvars>>

\* The call returns at line 116 or 127: ("O", None).
NormalizeOutside ==
    /\ tag_out = <<>>
    /\ \E raw \in RawTagFields :
           /\ parse_tag_and_type(raw)[1] = <<"O">>
           /\ Call(raw, parse_tag_and_type(raw))

\* The call returns at line 125: the B-/I- tag and its full type name.
NormalizeEntity ==
    /\ tag_out = <<>>
    /\ \E raw \in RawTagFields :
           /\ parse_tag_and_type(raw)[1] # <<"O">>
           /\ Call(raw, parse_tag_and_type(raw))

NormalizeNext ==
    \/ NormalizeOutside
    \/ NormalizeEntity

(***************************************************************************)
(* A document of four tokens through merge_single_pair, the decoder and    *)
(* main: the primary file holds one line per token, the tag file one       *)
(* record per token with a tag drawn from ExampleTags.  The letters of the *)
(* tokens are written without their diacritics.                            *)
(***************************************************************************)
ExampleTokens ==
    << <<"P", "r", "a", "h", "a">>, <<"j", "e">>,
       <<"h", "l", "a", "v", "n", "i">>, <<"m", "e", "s", "t", "o">> >>

ExampleTags == { <<"B", "-", "g", "u">>, <<"I", "-", "g", "u">>, <<"O">> }

\* The tag-file line of the i-th token.
ExampleTsvLine(i, tag) == ExampleTokens[i] \o <<TAB>> \o tag \o <<NL>>

\* The primary line of the i-th token: id, form, and eight empty columns.
ExampleConlluLine(i) ==
    join(<<TAB>>, <<<<ToString(i)>>, ExampleTokens[i]>> \o [k \in 1..8 |-> <<"_">>])
    \o <<NL>>

\* merge_single_pair reads the record of the next token.
ExampleReadTag ==
    /\ mpc = "tsv"
    /\ reader = "merge_single_pair"
    /\ TsvLinesRead < Len(ExampleTokens)
    /\ \E tag \in ExampleTags :
           TsvStep(ExampleTsvLine(TsvLinesRead + 1, tag),
                   strip(ExampleTsvLine(TsvLinesRead + 1, tag)), "record")

\* The merge loop reads the line of the next token.
ExampleMergeToken ==
    /\ mpc = "conllu"
    /\ Len(conllu_lines) < Len(ExampleTokens)
    /\ \E k \in {"augment", "tsv_ended"} :
           MergeStep(ExampleConlluLine(Len(conllu_lines) + 1),
                     MergeLine(ExampleConlluLine(Len(conllu_lines) + 1),
                               tsv_data, tsv_index), k)

\* main on the tag stream: the rows of its pages.
ExampleReport ==
    /\ mpc = "analyzed"
    /\ mpc' = "reported"
    /\ stats' = stats \o RowsOf(FileName, ents_tsv, sorted(DOMAIN ents_tsv))
    /\ UNCHANGED <<reader, tsv_files, tsv_data, tsv_index, conllu_lines, out, aug,
                   ents_tsv, ents_merged, csv_pages, warnings, pvars, xvars,
                   dpc, st, n_read, n_tok, n_none, spanned, open_pages, span_log,
                   line_read, prev, n_open>>

ExampleNext ==
    \/ ExampleReadTag
    \/ OpenConllu
    \/ ExampleMergeToken
    \/ FinishMerge
    \/ Analyze
    \/ ExampleReport

(***************************************************************************)
(* parse_nametag_response (src/nametag.py): the BIO logic on the lines of  *)
(* one sentence block of the tagger's response (lines 54-89).  The spans   *)
(* go to entities_by_page[page_num], page_num being fixed for the block.   *)
(***************************************************************************)
\* None as a value of current_entity_type, whose other values are type codes:
\* sequences of characters, none of which equals this one.
NtNone == <<None>>

\* The locals before the first line of the block (lines 55-56), and the list
\* entities_by_page[page_num].
NametagStart ==
    [current_entity_text |-> <<>>, current_entity_type |-> NtNone, entities |-> <<>>]

\* Which path of the loop body a line takes (lines 59, 64, 70, 77, 80).
NtBranchOf(s, line, parts) ==
    IF startswith(line, <<"#">>) \/ Len(parts) < 2 THEN "skip"
    ELSE IF startswith(parts[2], <<"B", "-">>) THEN "begin"
    ELSE IF /\ startswith(parts[2], <<"I", "-">>)
            /\ s.current_entity_type = SubSeq(parts[2], 3, Len(parts[2]))
    THEN "inside"
    ELSE "outside"

NtBranch(s, line) == NtBranchOf(s, line, split(line, TAB))

\* entities_by_page[page_num].append((current_entity_text, current_entity_type))
NtSave(s) ==
    [s EXCEPT !.entities = Append(@, <<s.current_entity_text, s.current_entity_type>>)]

\* The loop body on a line with fields parts, which takes path b (lines 59-85).
NtBio(s, parts, b) ==
    CASE b = "skip" -> s
      [] b = "begin" ->
           [(IF s.current_entity_text # <<>> THEN NtSave(s) ELSE s)
               EXCEPT !.current_entity_type = SubSeq(parts[2], 3, Len(parts[2])),
                      !.current_entity_text = <<parts[1]>>]
      [] b = "inside" -> [s EXCEPT !.current_entity_text = Append(@, parts[1])]
      [] b = "outside" ->
           IF s.current_entity_text # <<>>
           THEN [NtSave(s) EXCEPT !.current_entity_text = <<>>,
                                  !.current_entity_type = NtNone]
           ELSE s

\* The flush at the end of the block (lines 87-89).
NtFlush(s) == IF s.current_entity_text # <<>> THEN NtSave(s) ELSE s

\* The lines a sentence block is drawn from: lines = sent_block.split('\n'),
\* so that a line has no terminator.
NtLines ==
    { <<"#", " ", "t", "e", "x", "t">>,
      <<"x">>,
      <<"J", "a", "n", TAB, "B", "-", "p", "s">>,
      <<"N", "o", "v", "a", "k", TAB, "I", "-", "p", "s">>,
      <<"x", TAB, "I", "-", "g", "u">>,
      <<"j", "e", TAB, "O">>,
      <<"P", "r", "a", "h", "a", TAB, "B", "-", "g", "u">> }

\* parse_nametag_response does not run.
NametagIdle ==
    /\ nt_pc = "idle"
    /\ nt = NametagStart
    /\ nt_read = 0
    /\ nt_line = <<>>
    /\ nt_prev = NametagStart

\* The loop over the lines of a sentence block starts.
NametagInit ==
    /\ nt_pc = "read"
    /\ nt = NametagStart
    /\ nt_read = 0
    /\ nt_line = <<>>
    /\ nt_prev = NametagStart

\* One iteration of the loop on `line`, which takes path b.
NtStep(line, b) ==
    /\ NtBranch(nt, line) = b
    /\ nt' = NtBio(nt, split(line, TAB), b)
    /\ nt_read' = nt_read + 1
    /\ nt_line' = line
    /\ nt_prev' = nt
    /\ UNCHANGED <<nt_pc, bvars, dvars, mvars, pvars, yvars>>

NtSkip ==
    /\ nt_pc = "read"
    /\ nt_read < MaxLines
    /\ \E line \in NtLines : NtStep(line, "skip")

NtBegin ==
    /\ nt_pc = "read"
    /\ nt_read < MaxLines
    /\ \E line \in NtLines : NtStep(line, "begin")

NtInside ==
    /\ nt_pc = "read"
    /\ nt_read < MaxLines
    /\ \E line \in NtLines : NtStep(line, "inside")

NtOutside ==
    /\ nt_pc = "read"
    /\ nt_read < MaxLines
    /\ \E line \in NtLines : NtStep(line, "outside")

\* The block ends: the entity still open is flushed.
NtEndOfBlock ==
    /\ nt_pc = "read"
    /\ nt_pc' = "done"
    /\ nt' = NtFlush(nt)
    /\ UNCHANGED <<nt_read, nt_line, nt_prev, bvars, dvars, mvars, pvars, yvars>>

NametagNext ==
    \/ NtSkip
    \/ NtBegin
    \/ NtInside
    \/ NtOutside
    \/ NtEndOfBlock

(***************************************************************************)
(* The batch drivers: process_directory (src/merger_nt_udp.py lines        *)
(* 107-125), process_pipeline (src/api_util/summarize_nt_udp.py lines      *)
(* 215-270) and main (src/api_util/analyze.py lines 233-270), one loop     *)
(* iteration per document, each on whole files.                            *)
(***************************************************************************)
MaxDocs == 3

Drivers == {"process_directory", "process_pipeline", "main"}

\* A tag input that does not exist (no .tsv file, no directory of the
\* document), and one that exists and holds `files`.
Missing == [exists |-> FALSE, files |-> <<>>]

Present(files) == [exists |-> TRUE, files |-> files]

\* tsv_data after the loop of reader r has read `lines`, the n-th line of the
\* file onwards.
RECURSIVE TsvFrom(_, _, _, _, _)
TsvFrom(r, data, lines, file, n) ==
    IF lines = <<>> THEN data
    ELSE TsvFrom(r,
                 TsvAppend(r, data, strip(Head(lines)),
                           TsvKindOfStripped(strip(Head(lines))), file, n),
                 Tail(lines), file, n + 1)

\* The files of the directory in page order, the first line of each consumed
\* as its header (lines 52-63).
RECURSIVE SortedTsvFrom(_, _, _)
SortedTsvFrom(data, files, k) ==
    IF files = <<>> THEN data
    ELSE SortedTsvFrom(
             TsvFrom("get_sorted_tsv_content", data,
                     IF Head(files) = <<>> THEN <<>> ELSE Tail(Head(files)), k, 2),
             Tail(files), k + 1)

get_sorted_tsv_content(files) == SortedTsvFrom(<<>>, files, 1)

\* The lines written by the merge loop for the primary lines `lines`, the
\* cursor being at index.
RECURSIVE MergeFrom(_, _, _)
MergeFrom(lines, data, index) ==
    IF lines = <<>> THEN <<>>
    ELSE <<MergeLine(Head(lines), data, index).text>>
         \o MergeFrom(Tail(lines), data,
                      IF MergeLine(Head(lines), data, index).kind = "augment"
                      THEN index + 1 ELSE index)

\* The output file of merge_and_write (lines 68-107).
merge_and_write(conllu, data) == MergeFrom(conllu, data, 0)

\* The output file of merge_single_pair on two files that exist.
merge_single_pair(conllu, tsv) ==
    MergeFrom(conllu, TsvFrom("merge_single_pair", <<>>, tsv, 1, 1), 0)

\* What get_entities_by_page returns for a document: {} from the except
\* branch when the file cannot be read (lines 207-209).
EntitiesOf(doc) ==
    IF doc.readable THEN get_entities_by_page(doc.primary) ELSE <<>>

\* The name of the d-th file of the batch.
BatchFile(d) == <<"d", ToString(d)>> \o <<".", "c", "o", "n", "l", "l", "u">>

\* StatsAfter with a report that is started afresh after a file without pages.
StatsAfterReset(rows, fn, pages_data) ==
    IF pages_data = <<>> THEN <<header>>
    ELSE rows \o RowsOf(fn, pages_data, sorted(DOMAIN pages_data))

\* The rows of the statistics file after the loop body of main has run on the
\* file fn with the result pages_data (lines 241-265).
StatsAfter(rows, fn, pages_data) ==
    IF pages_data = <<>> THEN rows
    ELSE rows \o RowsOf(fn, pages_data, sorted(DOMAIN pages_data))

\* AfterDoc with a loop that is left at the first document passed over.
AfterDocAbort(i, n, passed_over) == IF passed_over THEN n ELSE i + 1

\* The number of documents taken once the loop body has run on the (i+1)-th of
\* n: the loop goes on to the next one, whether the document was passed over
\* (`continue`, the else branch) or processed.
AfterDoc(i, n, passed_over) == i + 1

\* The files of the batch.  A primary file of the merge drivers:
PrimaryFiles ==
    { <<ExampleConlluLine(1)>>,
      <<SENT_ID \o <<" ", "=", " ", "1", NL>>, ExampleConlluLine(1), ExampleConlluLine(2)>> }

\* a tag file, with its header line and with or without a record:
TagFiles ==
    { <<<<"W", "o", "r", "d", TAB, "T", "a", "g", TAB, "N", "E", NL>>>>,
      <<<<"W", "o", "r", "d", TAB, "T", "a", "g", TAB, "N", "E", NL>>,
        ExampleTsvLine(1, <<"B", "-", "g", "u">>)>> }

\* a file main reads:
TaggedFiles ==
    { <<ExampleTsvLine(2, <<"O">>)>>,
      <<ExampleTsvLine(1, <<"B", "-", "g", "u">>)>>,
      <<ExampleTsvLine(1, <<"B", "-", "g", "u">>), ExampleTsvLine(2, <<"O">>),
        SENT_ID \o <<" ", "=", " ", "1", NL>>,
        ExampleTsvLine(1, <<"B", "-", "g", "u">>)>> }

\* The documents a driver can meet.  primary: the lines of the .conllu file;
\* tags: Missing or Present with the tag files (one for process_directory);
\* csv_before: the number of CSV files in the document's output directory
\* before the run; readable: whether the .conllu file can be read to its end.
\* main takes no tag input, and the merge drivers are given readable files;
\* process_pipeline is given the primary files that hold a sentence marker.
BatchDocs(d) ==
    CASE d = "process_directory" ->
           [primary : PrimaryFiles, tags : {Missing} \cup {Present(<<f>>) : f \in TagFiles},
            csv_before : {0}, readable : {TRUE}]
      [] d = "process_pipeline" ->
           [primary : {f \in PrimaryFiles : Len(f) > 1},
            tags : {Missing, Present(<<>>)} \cup {Present(<<f>>) : f \in TagFiles}
                       \cup {Present(<<f, f>>) : f \in {t \in TagFiles : Len(t) > 1}},
            csv_before : {0, 1}, readable : {TRUE}]
      [] d = "main" ->
           [primary : TaggedFiles, tags : {Missing},
            csv_before : {0}, readable : BOOLEAN]

\* No batch driver runs.
BatchIdle ==
    /\ bpc = "idle"
    /\ driver = "none"
    /\ docs = <<>>
    /\ doc_i = 0
    /\ outputs = <<>>
    /\ log = <<>>
    /\ count_processed = 0
    /\ tally = <<>>

\* A driver has listed the .conllu files of its input directory, of which
\* there is at least one, and enters its loop.
BatchInit ==
    /\ bpc = "loop"
    /\ driver \in Drivers
    /\ \E n \in 1..MaxDocs : docs \in [1..n -> BatchDocs(driver)]
    /\ doc_i = 0
    /\ outputs = <<>>
    /\ log = <<>>
    /\ count_processed = 0
    /\ tally = <<>>

\* The loop of `which` takes its next document.
Takes(which) ==
    /\ bpc = "loop"
    /\ driver = which
    /\ doc_i < Len(docs)

\* The document is passed over with the message msg.
PassOver(msg) ==
    /\ log' = Append(log, msg)
    /\ doc_i' = AfterDoc(doc_i, Len(docs), TRUE)
    /\ UNCHANGED <<bpc, driver, docs, outputs, count_processed, tally,
                   nvars, dvars, mvars, pvars, yvars>>

\* The document is processed with the message msg and the files `written`.
Process(msg, written) ==
    /\ log' = Append(log, msg)
    /\ outputs' = outputs @@ ((doc_i + 1) :> written)
    /\ doc_i' = AfterDoc(doc_i, Len(docs), FALSE)
    /\ UNCHANGED <<bpc, driver, docs, count_processed, tally,
                   nvars, dvars, mvars, pvars, yvars>>

\* process_directory: the matching .tsv file exists, the pair is merged
\* (lines 121-123).
DirMerge ==
    /\ Takes("process_directory")
    /\ docs[doc_i + 1].tags # Missing
    /\ Process("[Info] Merged",
               merge_single_pair(docs[doc_i + 1].primary, docs[doc_i + 1].tags.files[1]))

\* process_directory: no matching .tsv file (lines 124-125).
DirSkip ==
    /\ Takes("process_directory")
    /\ docs[doc_i + 1].tags = Missing
    /\ PassOver("[Skip] Missing matching TSV file")

\* process_pipeline: no directory of tag files for the document (227-229).
PipeSkipMissing ==
    /\ Takes("process_pipeline")
    /\ docs[doc_i + 1].tags = Missing
    /\ PassOver("[Skip] No TSV directory found")

\* OutputComplete that takes any CSV file in the output directory as a
\* complete output.
OutputCompleteLoose(doc) == doc.csv_before > 0

\* The strict skip test: count_input > 0 and count_input == count_output,
\* count_output being the number of CSV files of an existing output
\* directory (lines 233-242).
OutputComplete(doc) ==
    /\ Len(doc.tags.files) > 0
    /\ Len(doc.tags.files) = doc.csv_before

\* process_pipeline: as many CSV files in the output directory as tag files
\* (lines 236-244).
PipeSkipComplete ==
    /\ Takes("process_pipeline")
    /\ docs[doc_i + 1].tags # Missing
    /\ OutputComplete(docs[doc_i + 1])
    /\ PassOver("[Skip] Output complete")

\* process_pipeline: the tag files hold no record (lines 251-254).
PipeNoData ==
    /\ Takes("process_pipeline")
    /\ docs[doc_i + 1].tags # Missing
    /\ ~OutputComplete(docs[doc_i + 1])
    /\ get_sorted_tsv_content(docs[doc_i + 1].tags.files) = <<>>
    /\ PassOver("[Warn] No valid TSV data found")

\* process_pipeline: the document is merged and cut into its pages (256-263).
PipeMerge ==
    /\ Takes("process_pipeline")
    /\ docs[doc_i + 1].tags # Missing
    /\ ~OutputComplete(docs[doc_i + 1])
    /\ get_sorted_tsv_content(docs[doc_i + 1].tags.files) # <<>>
    /\ Process("[Processing]",
               process_merged_file_into_pages(
                   merge_and_write(docs[doc_i + 1].primary,
                                   get_sorted_tsv_content(docs[doc_i + 1].tags.files))))

\* The loop body of main on a file whose result is pages_data.
MainStep(pages_data) ==
    /\ stats' = StatsAfter(stats, BatchFile(doc_i + 1), pages_data)
    /\ count_processed' = IF pages_data = <<>> THEN count_processed
                          ELSE count_processed + 1
    /\ log' = Append(log, IF docs[doc_i + 1].readable THEN "" ELSE "[Error] parsing")
    /\ doc_i' = AfterDoc(doc_i, Len(docs), pages_data = <<>>)
    /\ UNCHANGED <<bpc, driver, docs, outputs, tally, nvars, mvars, pvars, yvars,
                   dpc, st, n_read, n_tok, n_none, spanned, open_pages, span_log,
                   line_read, prev, n_open>>

\* main: get_entities_by_page returns no page, the file is passed over
\* (lines 241-244).
MainSkip ==
    /\ Takes("main")
    /\ EntitiesOf(docs[doc_i + 1]) = <<>>
    /\ MainStep(EntitiesOf(docs[doc_i + 1]))

\* main: the rows of the file's pages are written (lines 246-267).
MainRows ==
    /\ Takes("main")
    /\ EntitiesOf(docs[doc_i + 1]) # <<>>
    /\ MainStep(EntitiesOf(docs[doc_i + 1]))

\* The loop is over.  main prints its counter (line 269), process_pipeline
\* prints 'Pipeline Complete.' (line 270), process_directory returns.
BatchEnd ==
    /\ bpc = "loop"
    /\ doc_i >= Len(docs)
    /\ bpc' = "end"
    /\ tally' = IF driver = "main" THEN <<count_processed>> ELSE <<>>
    /\ UNCHANGED <<driver, docs, doc_i, outputs, log, count_processed,
                   nvars, dvars, mvars, pvars, yvars>>

BatchNext ==
    \/ DirMerge
    \/ DirSkip
    \/ PipeSkipMissing
    \/ PipeSkipComplete
    \/ PipeNoData
    \/ PipeMerge
    \/ MainSkip
    \/ MainRows
    \/ BatchEnd

(***************************************************************************)
(* One stream of lines through both page segmenters: the loop of           *)
(* get_entities_by_page (src/api_util/analyze.py, lines 145-201) and the   *)
(* loop of process_merged_file_into_pages (summarize_nt_udp.py, lines      *)
(* 165-203), each on its own locals, one line at a time.                   *)
(***************************************************************************)
MaxSegLines == 4

\* The lines the stream is drawn from: two '# sent_id' comments, a blank
\* line, a token line of ten columns, a range line and a line of two fields.
SegLines ==
    {
      <<"#", " ", "s", "e", "n", "t", "_", "i", "d", " ", "=", " ",
        "1", NL>>,
      <<"#", " ", "s", "e", "n", "t", "_", "i", "d", " ", "=", " ",
        "2", NL>>,
      <<NL>>,
      <<"1", TAB, "a", TAB, "a", TAB, "_", TAB, "_", TAB, "_", TAB,
        "_", TAB, "_", TAB, "_", TAB, "N", "E", "R", "=", "B", "-",
        "g", "u", NL>>,
      <<"1", "-", "2", TAB, "a", "b", TAB, "_", TAB, "_", TAB, "_",
        TAB, "_", TAB, "_", TAB, "_", TAB, "_", TAB, "_", NL>>,
      <<"x", TAB, "B", "-", "g", "u", NL>> }

\* Neither loop runs.
SegIdle ==
    /\ seg_pc = "idle"
    /\ seg_dec = DecoderStart
    /\ seg_split = SplitterStart
    /\ seg_trace = <<>>
    /\ seg_rec = <<>>

\* Both loops are about to read the first line.
SegInit ==
    /\ seg_pc = "read"
    /\ seg_dec = DecoderStart
    /\ seg_split = SplitterStart
    /\ seg_trace = <<>>
    /\ seg_rec = <<>>

\* Which path of the loop body of process_merged_file_into_pages a stripped
\* line takes (the conditions of lines 169-171, 177 and 181).
SegBranchOf(line, parts) ==
    IF startswith(line, SENT_ID) /\ ParseSentId(split1(line, "=")).kind = "page"
    THEN "boundary"
    ELSE IF startswith(line, <<"#">>) \/ line = <<>> THEN "comment"
    ELSE IF Len(parts) < 10 \/ contains(parts[1], <<"-">>) THEN "passed"
    ELSE "row"

SegBranch(line) == SegBranchOf(strip(line), split(strip(line), TAB))

\* One iteration of each loop on `line`, which takes path b in
\* process_merged_file_into_pages.
SegStep(line, b) ==
    /\ SegBranch(line) = b
    /\ seg_dec' = DecodeLine(seg_dec, line)
    /\ seg_split' = SplitLine(seg_split, strip(line))
    /\ seg_trace' = Append(seg_trace,
                           [line |-> line,
                            dec |-> DecodeLine(seg_dec, line).curr_page,
                            split |-> SplitLine(seg_split, strip(line)).page_counter])
    /\ seg_rec' = IF ParseLine(line).kind = "data"
                  THEN Append(seg_rec, DecodeLine(seg_dec, line).curr_page)
                  ELSE seg_rec
    /\ UNCHANGED <<seg_pc, dvars, mvars, pvars, nvars, bvars, avars, fvars, evars, cvars>>

SegBoundary ==
    /\ seg_pc = "read"
    /\ Len(seg_trace) < MaxSegLines
    /\ \E line \in SegLines : SegStep(line, "boundary")

SegComment ==
    /\ seg_pc = "read"
    /\ Len(seg_trace) < MaxSegLines
    /\ \E line \in SegLines : SegStep(line, "comment")

SegPassed ==
    /\ seg_pc = "read"
    /\ Len(seg_trace) < MaxSegLines
    /\ \E line \in SegLines : SegStep(line, "passed")

SegRow ==
    /\ seg_pc = "read"
    /\ Len(seg_trace) < MaxSegLines
    /\ \E line \in SegLines : SegStep(line, "row")

\* The stream ends: the open entity is flushed and the rows of the last
\* page are written.
SegEnd ==
    /\ seg_pc = "read"
    /\ seg_pc' = "done"
    /\ seg_dec' = FlushAtEnd(seg_dec)
    /\ seg_split' = write_page_csv(seg_split)
    /\ UNCHANGED <<seg_trace, seg_rec, dvars, mvars, pvars, nvars, bvars, avars, fvars, evars, cvars>>

SegNext ==
    \/ SegBoundary
    \/ SegComment
    \/ SegPassed
    \/ SegRow
    \/ SegEnd

(***************************************************************************)
(* parse_nametag_response, parts A and B: the original file is scanned for *)
(* '# newdoc' and '# sent_id' lines, then every sentence of the tagger     *)
(* response is given a page (src/nametag.py lines 18-52, the same code as  *)
(* src/api_util/nametag.py lines 47-82).                                   *)
(***************************************************************************)
MaxOrig == 3

MaxSents == 3

NEWDOC == <<"#", " ", "n", "e", "w", "d", "o", "c">>

\* The lines the original file is drawn from.
OrigLines ==
    { <<"#", " ", "n", "e", "w", "d", "o", "c", NL>>,
      <<"#", " ", "s", "e", "n", "t", "_", "i", "d", " ", "=", " ", "1", NL>>,
      <<"#", " ", "s", "e", "n", "t", "_", "i", "d", " ", "=", " ", "2", NL>>,
      <<"1", TAB, "R", "i", "m", NL>>,
      <<NL>> }

\* Which path of the loop of part A a stripped line takes (lines 27-31).
OrigBranch(line) ==
    IF line = <<>> THEN "other"
    ELSE IF startswith(line, NEWDOC) THEN "newdoc"
    ELSE IF startswith(line, SENT_ID) THEN "sent_id"
    ELSE "other"

\* page_num of the sentence of index idx, counted from 0 (line 52).
PageNum(idx, pages, page) == IF idx < Len(pages) THEN pages[idx + 1] ELSE page

\* parse_nametag_response does not run.
MapIdle ==
    /\ map_pc = "idle"
    /\ current_page = 0
    /\ sent_to_page = <<>>
    /\ orig_read = 0
    /\ sent_pages = <<>>

\* The original file has been opened (lines 20-24).
MapInit ==
    /\ map_pc = "scan"
    /\ current_page = 0
    /\ sent_to_page = <<>>
    /\ orig_read = 0
    /\ sent_pages = <<>>

\* One iteration of the loop of part A on a line that takes path b.
ScanStep(b) ==
    /\ map_pc = "scan"
    /\ orig_read < MaxOrig
    /\ \E line \in OrigLines : OrigBranch(strip(line)) = b
    /\ orig_read' = orig_read + 1
    /\ UNCHANGED <<map_pc, sent_pages, dvars, mvars, pvars, nvars, bvars, svars, fvars, evars, cvars>>

\* '# newdoc' (lines 29-30).
ScanNewdoc ==
    /\ ScanStep("newdoc")
    /\ current_page' = current_page + 1
    /\ UNCHANGED sent_to_page

\* '# sent_id' (lines 31-34).
ScanSentId ==
    /\ ScanStep("sent_id")
    /\ current_page' = IF current_page = 0 THEN 1 ELSE current_page
    /\ sent_to_page' = Append(sent_to_page, IF current_page = 0 THEN 1 ELSE current_page)

\* A blank line or any other line (lines 27, 29-31).
ScanOther ==
    /\ ScanStep("other")
    /\ UNCHANGED <<current_page, sent_to_page>>

\* The original file ends; the response is loaded and split into sentences
\* (lines 43-48).
ScanEnd ==
    /\ map_pc = "scan"
    /\ map_pc' = "assign"
    /\ UNCHANGED <<current_page, sent_to_page, orig_read, sent_pages,
                   dvars, mvars, pvars, nvars, bvars, svars, fvars, evars, cvars>>

\* The next sentence of the response is given its page (lines 50-52).
Assign ==
    /\ map_pc = "assign"
    /\ Len(sent_pages) < MaxSents
    /\ sent_pages' = Append(sent_pages, PageNum(Len(sent_pages), sent_to_page, current_page))
    /\ UNCHANGED <<map_pc, current_page, sent_to_page, orig_read,
                   dvars, mvars, pvars, nvars, bvars, svars, fvars, evars, cvars>>

\* idx < len(sent_to_page): the page of the sentence id of the same index.
AssignMapped ==
    /\ Len(sent_pages) < Len(sent_to_page)
    /\ Assign

\* A sentence beyond the sentence ids of the original file: current_page.
AssignBeyond ==
    /\ Len(sent_pages) >= Len(sent_to_page)
    /\ Assign

\* The response has no more sentences.
AssignEnd ==
    /\ map_pc = "assign"
    /\ map_pc' = "done"
    /\ UNCHANGED <<current_page, sent_to_page, orig_read, sent_pages,
                   dvars, mvars, pvars, nvars, bvars, svars, fvars, evars, cvars>>

MapNext ==
    \/ ScanNewdoc
    \/ ScanSentId
    \/ ScanOther
    \/ ScanEnd
    \/ AssignMapped
    \/ AssignBeyond
    \/ AssignEnd

(***************************************************************************)
(* get_ne_suffix (src/api_util/nametag.py lines 7-34), one call.           *)
(***************************************************************************)
MaxLayers == 2

\* The suffix appended for one sub-tag (lines 22-32).
SuffixOf(t) ==
    IF startswith(t, <<"B", "-">>) \/ startswith(t, <<"I", "-">>)
    THEN IF Len(split1(t, "-")) > 1 THEN split1(t, "-")[2] ELSE t
    ELSE <<>>

\* suffixes after the loop over sub_tags (lines 18-32).
Suffixes(sub_tags) == [i \in DOMAIN sub_tags |-> SuffixOf(sub_tags[i])]

get_ne_suffix(tag_str) ==
    IF tag_str = <<>> THEN <<>>
    ELSE join(<<"|">>, Suffixes(split(tag_str, "|")))

\* The layers a tag is made of.
SubTags ==
    { <<"O">>,
      <<"B", "-", "C">>,
      <<"B", "-", "i", "c">>,
      <<"I", "-", "g", "u">>,
      <<"B", "-">>,
      <<"x">>,
      <<"B", "-", "a", "-", "b">>,
      <<"I">> }

\* The tags passed in: the empty string, and up to MaxLayers layers joined by '|'.
RECURSIVE TagStrings(_)
TagStrings(n) ==
    IF n = 1 THEN SubTags
    ELSE TagStrings(n - 1) \cup
         { s \o <<"|">> \o t : s \in TagStrings(n - 1), t \in SubTags }

\* No call is made.
SuffixIdle ==
    /\ tag_string = <<>>
    /\ ne_val = <<>>

\* The function is about to be called on a tag.
SuffixInit ==
    /\ tag_string \in TagStrings(MaxLayers) \cup {<<>>}
    /\ ne_val = <<>>

\* `if not tag_string: return ""` (lines 13-14).
SuffixOfEmpty ==
    /\ ne_val = <<>>
    /\ tag_string = <<>>
    /\ ne_val' = <<get_ne_suffix(tag_string)>>
    /\ UNCHANGED <<tag_string, dvars, mvars, pvars, nvars, bvars, svars, avars, evars, cvars>>

\* The loop over the sub-tags and the join (lines 17-34).
SuffixJoined ==
    /\ ne_val = <<>>
    /\ tag_string # <<>>
    /\ ne_val' = <<get_ne_suffix(tag_string)>>
    /\ UNCHANGED <<tag_string, dvars, mvars, pvars, nvars, bvars, svars, avars, evars, cvars>>

SuffixNext ==
    \/ SuffixOfEmpty
    \/ SuffixJoined

(***************************************************************************)
(* main of src/api_0_extract_TXT.py: the statistics scan builds one task   *)
(* per ALTO file found, and a pool of worker processes runs                *)
(* extract_single_page on the tasks.                                       *)
(***************************************************************************)
MaxWorkers == 2

\* The directory entries a scan can find: a subdirectory "s" and the root
\* "r" of the input folder, each with its file names.
Entries ==
    { [dir |-> "s", name |-> <<"d", "-", "a", ".", "a", "l", "t", "o", ".", "x", "m", "l">>],
      [dir |-> "s", name |-> <<"d", "-", "b", ".", "a", "l", "t", "o", ".", "x", "m", "l">>],
      [dir |-> "s", name |-> <<"d", "-", "a", "-", "x", ".", "x", "m", "l">>],
      [dir |-> "s", name |-> <<"d", "-", "a", ".", "t", "x", "t">>],
      [dir |-> "r", name |-> <<"d", "-", "a", ".", "a", "l", "t", "o", ".", "x", "m", "l">>] }

\* fname.lower().endswith(".xml") (line 125); the names are in lower case.
IsXml(name) ==
    /\ Len(name) >= 4
    /\ SubSeq(name, Len(name) - 3, Len(name)) = <<".", "x", "m", "l">>

\* file_id and page of a file name (lines 138-141).
IdsOf(parts) ==
    [file |-> parts[1], page |-> IF Len(parts) > 1 THEN parts[2] ELSE <<>>]

\* The record of a scanned file (lines 138-155), without its counts.
RecOf(entry) ==
    [file |-> IdsOf(split(split(entry.name, ".")[1], "-")).file,
     page |-> IdsOf(split(split(entry.name, ".")[1], "-")).page,
     path |-> <<entry.dir, entry.name>>]

\* txt_path of a task: save_dir / f"{file_id}-{page_id}.txt" (lines 166-168).
TxtPath(task) == <<task.file, task.file \o <<"-">> \o task.page \o <<".", "t", "x", "t">>>>

\* The tasks that occupy a worker.
Running == {t \in DOMAIN task_pc : task_pc[t] \in {"check", "extract", "write"}}

\* The script does not run.
ExtractIdle ==
    /\ ex_pc = "idle"
    /\ listing = <<>>
    /\ tasks = <<>>
    /\ task_pc = <<>>
    /\ txt_files = {}
    /\ txt_writes = <<>>

\* The orders in which os.listdir can give the entries of S.
Listings(S) ==
    { l \in [1..Cardinality(S) -> S] : \A i, j \in 1..Cardinality(S) : i # j => l[i] # l[j] }

\* The scan starts on a folder that holds some of the entries; the output
\* directory is empty or holds a text file of an earlier run.
ExtractInit ==
    /\ ex_pc = "scan"
    /\ \E S \in SUBSET Entries : S # {} /\ listing \in Listings(S)
    /\ tasks = <<>>
    /\ task_pc = <<>>
    /\ txt_files \in {{}, {TxtPath(RecOf([dir |-> "s", name |-> <<"d", "-", "b", ".", "a", "l", "t", "o", ".", "x", "m", "l">>]))}}
    /\ txt_writes = <<>>

\* The scan passes over an entry that is no .xml file (lines 125-126).
ScanSkip ==
    /\ ex_pc = "scan"
    /\ listing # <<>>
    /\ ~IsXml(Head(listing).name)
    /\ listing' = Tail(listing)
    /\ UNCHANGED <<ex_pc, tasks, task_pc, txt_files, txt_writes,
                   dvars, mvars, pvars, nvars, bvars, svars, avars, fvars, cvars>>

\* The scan records an .xml file (lines 128-157); main makes a task of the
\* record (lines 273-274).
ScanFile ==
    /\ ex_pc = "scan"
    /\ listing # <<>>
    /\ IsXml(Head(listing).name)
    /\ listing' = Tail(listing)
    /\ tasks' = Append(tasks, RecOf(Head(listing)))
    /\ task_pc' = Append(task_pc, "queued")
    /\ UNCHANGED <<ex_pc, txt_files, txt_writes,
                   dvars, mvars, pvars, nvars, bvars, svars, avars, fvars, cvars>>

\* The executor is created and the tasks are submitted (lines 278-279).
StartPool ==
    /\ ex_pc = "scan"
    /\ listing = <<>>
    /\ ex_pc' = "pool"
    /\ UNCHANGED <<listing, tasks, task_pc, txt_files, txt_writes,
                   dvars, mvars, pvars, nvars, bvars, svars, avars, fvars, cvars>>

\* Task t goes from stage `from` to stage `to`.
Stage(t, from, to) ==
    /\ ex_pc = "pool"
    /\ task_pc[t] = from
    /\ task_pc' = [task_pc EXCEPT ![t] = to]
    /\ UNCHANGED <<ex_pc, listing, tasks, dvars, mvars, pvars, nvars, bvars,
                   svars, avars, fvars, cvars>>

\* A free worker takes the first task still queued (lines 163-168).
TakeTask ==
    /\ Cardinality(Running) < MaxWorkers
    /\ \E t \in DOMAIN tasks :
           /\ \A u \in 1..(t - 1) : task_pc[u] # "queued"
           /\ Stage(t, "queued", "check")
    /\ UNCHANGED <<txt_files, txt_writes>>

\* `if txt_path.exists(): return True` (lines 171-172).
SkipExisting ==
    /\ \E t \in DOMAIN tasks :
           /\ TxtPath(tasks[t]) \in txt_files
           /\ Stage(t, "check", "true")
    /\ UNCHANGED <<txt_files, txt_writes>>

\* The text file does not exist: alto-tools is run (lines 179-185).
RunAltoTools ==
    /\ \E t \in DOMAIN tasks :
           /\ TxtPath(tasks[t]) \notin txt_files
           /\ Stage(t, "check", "extract")
    /\ UNCHANGED <<txt_files, txt_writes>>

\* alto-tools returned 0 and the lines are joined (lines 186-213).
Extracted ==
    /\ \E t \in DOMAIN tasks : Stage(t, "extract", "write")
    /\ UNCHANGED <<txt_files, txt_writes>>

\* alto-tools failed (lines 218-221).
ExtractFailed ==
    /\ \E t \in DOMAIN tasks : Stage(t, "extract", "false")
    /\ UNCHANGED <<txt_files, txt_writes>>

\* The text file is opened for writing and written (lines 215-217).
WriteTxt ==
    /\ \E t \in DOMAIN tasks :
           /\ Stage(t, "write", "true")
           /\ txt_files' = txt_files \cup {TxtPath(tasks[t])}
           /\ txt_writes' = Append(txt_writes, [task |-> t, path |-> TxtPath(tasks[t])])

\* Every task has returned: the executor is shut down (lines 279-281).
PoolDone ==
    /\ ex_pc = "pool"
    /\ \A t \in DOMAIN task_pc : task_pc[t] \in {"true", "false"}
    /\ ex_pc' = "done"
    /\ UNCHANGED <<listing, tasks, task_pc, txt_files, txt_writes,
                   dvars, mvars, pvars, nvars, bvars, svars, avars, fvars, cvars>>

ExtractNext ==
    \/ ScanSkip
    \/ ScanFile
    \/ StartPool
    \/ TakeTask
    \/ SkipExisting
    \/ RunAltoTools
    \/ Extracted
    \/ ExtractFailed
    \/ WriteTxt
    \/ PoolDone

(***************************************************************************)
(* main of src/api_util/chunk.py: the text of a file is cut into chunks of *)
(* at most `limit` words, at the end of a sentence where there is one.     *)
(***************************************************************************)
MaxWords == 4

MaxLimit == 3

lookback == 100

\* The words a text is made of.
Vocabulary == { <<"a">>, <<"b", ".">>, <<"c", "?">> }

\* The texts of up to n words, the words one space apart.
RECURSIVE Texts(_)
Texts(n) ==
    IF n = 0 THEN {<<>>}
    ELSE Texts(n - 1) \cup Vocabulary \cup
         { s \o <<" ">> \o w : s \in Texts(n - 1) \ {<<>>}, w \in Vocabulary }

\* word and word[-1] in ['.', '?', '!'] (line 63).
EndsSentence(word) == word # <<>> /\ word[Len(word)] \in {".", "?", "!"}

\* lookback_limit = max(0, len(current_chunk) - 100) (line 58).
lookback_limit(chunk) == IF Len(chunk) - lookback > 0 THEN Len(chunk) - lookback ELSE 0

\* The positions, counted from 1, that the loop of line 60 visits and finds
\* to end a sentence: range(len(current_chunk) - 1, lookback_limit, -1)
\* leaves the index lookback_limit out.
Found(chunk) ==
    { p \in (lookback_limit(chunk) + 2)..Len(chunk) : EndsSentence(chunk[p]) }

\* cut_index after lines 53-70: one past the last index found, or the
\* length of the buffer.
cut_index(chunk) ==
    IF Found(chunk) # {}
    THEN CHOOSE p \in Found(chunk) : \A q \in Found(chunk) : q <= p
    ELSE Len(chunk)

\* The test of line 52 passing one word too late.
ReachedLimitLate(chunk, lim) == Len(chunk) > lim

\* len(current_chunk) >= limit (line 52).
ReachedLimit(chunk, lim) == Len(chunk) >= lim

\* leftovers when the words after the cut are dropped.
leftovers_dropped(chunk, cut) == <<>>

\* leftovers = current_chunk[cut_index:] (line 77).
leftovers(chunk, cut) == SubSeq(chunk, cut + 1, Len(chunk))

\* What write_chunk writes: " ".join(words_list) (lines 16-18).
write_chunk(words_list) == join(<<" ">>, words_list)

\* The script does not run.
ChunkIdle ==
    /\ ch_pc = "idle"
    /\ text = <<>>
    /\ limit = 0
    /\ words = <<>>
    /\ ch_i = 0
    /\ current_chunk = <<>>
    /\ chunk_count = 0
    /\ chunk_files = <<>>
    /\ cuts = <<>>

\* The input file has been read and stripped (lines 29-36).
ChunkInit ==
    /\ ch_pc = "read"
    /\ text \in Texts(MaxWords)
    /\ limit \in 0..MaxLimit
    /\ words = <<>>
    /\ ch_i = 0
    /\ current_chunk = <<>>
    /\ chunk_count = 0
    /\ chunk_files = <<>>
    /\ cuts = <<>>

\* `if not text: sys.exit(0)` (lines 38-39).
ExitOnEmpty ==
    /\ ch_pc = "read"
    /\ strip(text) = <<>>
    /\ ch_pc' = "exit"
    /\ UNCHANGED <<text, limit, words, ch_i, current_chunk, chunk_count, chunk_files,
                   cuts, dvars, mvars, pvars, nvars, bvars, svars, avars, fvars, evars>>

\* words = text.split() (lines 41-46).
SplitWords ==
    /\ ch_pc = "read"
    /\ strip(text) # <<>>
    /\ ch_pc' = "loop"
    /\ words' = split_ws(strip(text))
    /\ UNCHANGED <<text, limit, ch_i, current_chunk, chunk_count, chunk_files,
                   cuts, dvars, mvars, pvars, nvars, bvars, svars, avars, fvars, evars>>

\* One iteration of the while loop that leaves the buffer below the limit
\* (lines 47-52).
AppendWord ==
    /\ ch_pc = "loop"
    /\ ch_i < Len(words)
    /\ ~ReachedLimit(Append(current_chunk, words[ch_i + 1]), limit)
    /\ current_chunk' = Append(current_chunk, words[ch_i + 1])
    /\ ch_i' = ch_i + 1
    /\ UNCHANGED <<ch_pc, text, limit, words, chunk_count, chunk_files, cuts,
                   dvars, mvars, pvars, nvars, bvars, svars, avars, fvars, evars>>

\* One iteration of the while loop in which `chunk`, the buffer with the
\* next word, has reached the limit and is cut (lines 47-78).
CutChunk(chunk) ==
    /\ current_chunk' = leftovers(chunk, cut_index(chunk))
    /\ chunk_files' = (chunk_count :> write_chunk(SubSeq(chunk, 1, cut_index(chunk)))) @@ chunk_files
    /\ chunk_count' = chunk_count + 1
    /\ cuts' = Append(cuts, [chunk |-> chunk, cut_index |-> cut_index(chunk)])
    /\ ch_i' = ch_i + 1
    /\ UNCHANGED <<ch_pc, text, limit, words,
                   dvars, mvars, pvars, nvars, bvars, svars, avars, fvars, evars>>

\* The backward scan finds a word that ends a sentence (lines 60-65).
CutAtSentenceEnd ==
    /\ ch_pc = "loop"
    /\ ch_i < Len(words)
    /\ ReachedLimit(Append(current_chunk, words[ch_i + 1]), limit)
    /\ Found(Append(current_chunk, words[ch_i + 1])) # {}
    /\ CutChunk(Append(current_chunk, words[ch_i + 1]))

\* The backward scan finds none: the cut is at the end of the buffer
\* (lines 69-70).
CutAtLimit ==
    /\ ch_pc = "loop"
    /\ ch_i < Len(words)
    /\ ReachedLimit(Append(current_chunk, words[ch_i + 1]), limit)
    /\ Found(Append(current_chunk, words[ch_i + 1])) = {}
    /\ CutChunk(Append(current_chunk, words[ch_i + 1]))

\* After the loop: the words left in the buffer are the final chunk
\* (lines 81-82).
WriteLastChunk ==
    /\ ch_pc = "loop"
    /\ ch_i >= Len(words)
    /\ current_chunk # <<>>
    /\ ch_pc' = "done"
    /\ chunk_files' = (chunk_count :> write_chunk(current_chunk)) @@ chunk_files
    /\ UNCHANGED <<text, limit, words, ch_i, current_chunk, chunk_count, cuts,
                   dvars, mvars, pvars, nvars, bvars, svars, avars, fvars, evars>>

\* After the loop: the buffer is empty, nothing more is written.
NoLastChunk ==
    /\ ch_pc = "loop"
    /\ ch_i >= Len(words)
    /\ current_chunk = <<>>
    /\ ch_pc' = "done"
    /\ UNCHANGED <<text, limit, words, ch_i, current_chunk, chunk_count, chunk_files,
                   cuts, dvars, mvars, pvars, nvars, bvars, svars, avars, fvars, evars>>

ChunkNext ==
    \/ ExitOnEmpty
    \/ SplitWords
    \/ AppendWord
    \/ CutAtSentenceEnd
    \/ CutAtLimit
    \/ WriteLastChunk
    \/ NoLastChunk

\* The state machines added after the batch drivers do not run.
RestIdle == SegIdle /\ MapIdle /\ SuffixIdle /\ ExtractIdle /\ ChunkIdle

(***************************************************************************)
(* The specifications.                                                     *)
(***************************************************************************)
InitMerge == DecodeInit /\ MergeInit /\ PureIdle /\ NametagIdle /\ BatchIdle /\ RestIdle

SpecMerge == InitMerge /\ [][MergeNext]_vars

InitDecode == DecodeInit /\ MergeIdle /\ PureIdle /\ NametagIdle /\ BatchIdle /\ RestIdle

SpecDecode == InitDecode /\ [][DecodeNext]_vars

InitAggregate == DecodeInit /\ MergeIdle /\ PureIdle /\ NametagIdle /\ BatchIdle /\ RestIdle

SpecAggregate == InitAggregate /\ [][AggregateNext]_vars

InitExample ==
    /\ DecodeInit /\ MergeInit /\ PureIdle /\ NametagIdle /\ BatchIdle /\ RestIdle
    /\ reader = "merge_single_pair"

SpecExample == InitExample /\ [][ExampleNext]_vars

InitNormalize == DecodeInit /\ MergeIdle /\ NormalizeInit /\ NametagIdle /\ BatchIdle /\ RestIdle

SpecNormalize == InitNormalize /\ [][NormalizeNext]_vars

InitNametag == DecodeInit /\ MergeIdle /\ PureIdle /\ NametagInit /\ BatchIdle /\ RestIdle

SpecNametag == InitNametag /\ [][NametagNext]_vars

InitBatch == DecodeInit /\ MergeIdle /\ PureIdle /\ NametagIdle /\ BatchInit /\ RestIdle

SpecBatch == InitBatch /\ [][BatchNext]_vars

InitPages ==
    /\ DecodeInit /\ MergeIdle /\ PureIdle /\ NametagIdle /\ BatchIdle
    /\ SegInit /\ MapIdle /\ SuffixIdle /\ ExtractIdle /\ ChunkIdle

SpecPages == InitPages /\ [][SegNext]_vars

InitMap ==
    /\ DecodeInit /\ MergeIdle /\ PureIdle /\ NametagIdle /\ BatchIdle
    /\ SegIdle /\ MapInit /\ SuffixIdle /\ ExtractIdle /\ ChunkIdle

SpecMap == InitMap /\ [][MapNext]_vars

InitSuffix ==
    /\ DecodeInit /\ MergeIdle /\ PureIdle /\ NametagIdle /\ BatchIdle
    /\ SegIdle /\ MapIdle /\ SuffixInit /\ ExtractIdle /\ ChunkIdle

SpecSuffix == InitSuffix /\ [][SuffixNext]_vars

InitExtract ==
    /\ DecodeInit /\ MergeIdle /\ PureIdle /\ NametagIdle /\ BatchIdle
    /\ SegIdle /\ MapIdle /\ SuffixIdle /\ ExtractInit /\ ChunkIdle

SpecExtract == InitExtract /\ [][ExtractNext]_vars

InitChunk ==
    /\ DecodeInit /\ MergeIdle /\ PureIdle /\ NametagIdle /\ BatchIdle
    /\ SegIdle /\ MapIdle /\ SuffixIdle /\ ExtractIdle /\ ChunkInit

SpecChunk == InitChunk /\ [][ChunkNext]_vars

(***************************************************************************)
(* Properties of get_entities_by_page.                                     *)
(***************************************************************************)
\* The spans of a returned dict, page by page in page order.
RECURSIVE SpansInPageOrder(_)
SpansInPageOrder(pages) ==
    IF DOMAIN pages = {} THEN <<>>
    ELSE LET p == CHOOSE q \in DOMAIN pages : \A r \in DOMAIN pages : q <= r
         IN pages[p] \o SpansInPageOrder([r \in DOMAIN pages \ {p} |-> pages[r]])

\* The tokens of a sequence of spans, span texts split at the joining space.
RECURSIVE TokensOf(_)
TokensOf(spans) ==
    IF spans = <<>> THEN <<>>
    ELSE split(Head(spans)[1], " ") \o TokensOf(Tail(spans))

\* C1 (No cross-page spans): every token composing an emitted span was read
\* under the same page index; no span joins tokens read before and after a
\* '# sent_id = 1' marker.
NoCrossPageSpans ==
    \A k \in 1..Len(span_log) :
        \A i, j \in 1..Len(span_log[k].tok_pages) :
            span_log[k].tok_pages[i] = span_log[k].tok_pages[j]

\* C2 (Page-boundary flush): an open span is emitted before the page counter
\* advances, so every span is recorded under the page index that was current
\* when its first token was read.
SpanRecordedOnFirstTokenPage ==
    \A k \in 1..Len(span_log) : span_log[k].page = span_log[k].tok_pages[1]

\* C3 (Span completeness): when the file has been decoded, the tokens of the
\* emitted spans are exactly the tokens that were put into a span, each once
\* and in reading order, and together with the tokens assigned to no span they
\* are as many as the input tokens.
SpanCompleteness ==
    dpc = "done" =>
        /\ TokensOf(SpansInPageOrder(st.pages)) = spanned
        /\ Len(TokensOf(SpansInPageOrder(st.pages))) + n_none = n_tok
        /\ Len(SpansInPageOrder(st.pages)) = Len(span_log)

\* A decoded file with two spans, one of two tokens, and a token in no span.
SpanCompletenessWitness ==
    /\ dpc = "done"
    /\ Len(span_log) >= 2
    /\ n_none >= 1
    /\ \E k \in 1..Len(span_log) : Len(span_log[k].tok_pages) >= 2

(***************************************************************************)
(* Properties of the merge.  They are stated on the lines read and the     *)
(* lines written, with their own reading of a line: its tab-separated      *)
(* columns without the surrounding blanks and the line terminator.         *)
(***************************************************************************)
Cols(line) == split(strip(line), TAB)

CommentOrBlank(line) == strip(line) = <<>> \/ Head(strip(line)) = "#"

\* A true-token line: a data line with an id column and a form column, whose
\* id holds neither '-' nor '.'.
TrueToken(line) ==
    /\ ~CommentOrBlank(line)
    /\ Len(Cols(line)) >= 2
    /\ \A c \in 1..Len(Cols(line)[1]) : Cols(line)[1][c] \notin {"-", "."}

\* The number of true-token lines among the first i primary lines.
Rank(i) == Cardinality({j \in 1..i : TrueToken(conllu_lines[j])})

EndsWith(s, t) == Len(s) >= Len(t) /\ SubSeq(s, Len(s) - Len(t) + 1, Len(s)) = t

Started == mpc \in {"conllu", "merged", "exported", "analyzed", "reported"}

\* The tag-stream line a record was read from.
SourceLine(rec) == tsv_files[rec.file][rec.line]

HEADER == <<"W", "o", "r", "d", TAB, "T", "a", "g", TAB, "N", "E">>

\* C4 (Merged-stream decoding equals pre-merge decoding): for a two-field
\* (token, tag) stream with as many records as the primary stream has true
\* tokens, the spans decoded from the merged output are the spans decoded from
\* the tag stream.
MergedDecodingEqualsPreMerge ==
    ( /\ mpc = "analyzed"
      /\ \A f \in 1..Len(tsv_files) : \A l \in 1..Len(tsv_files[f]) :
             Len(Cols(tsv_files[f][l])) = 2
      /\ Len(tsv_data) = TsvLinesRead
      /\ Len(tsv_data) = Rank(Len(conllu_lines)) )
    => SpansInPageOrder(ents_merged) = SpansInPageOrder(ents_tsv)

\* C5 (Alignment cursor): the k-th true-token line, for k up to the number of
\* tag records, is augmented with the tag of the k-th record, and the cursor
\* equals the number of augmented lines: no other line advances it.
AlignmentCursor ==
    Started =>
        /\ \A i \in 1..Len(conllu_lines) :
               (TrueToken(conllu_lines[i]) /\ Rank(i) <= Len(tsv_data)) =>
                   /\ aug[i] = Rank(i)
                   /\ Len(Cols(out[i])) >= 10
                   /\ EndsWith(Cols(out[i])[10], NER_KEY \o tsv_data[Rank(i)].tag)
        /\ tsv_index = Cardinality({i \in 1..Len(out) : out[i] # conllu_lines[i]})
        /\ \A i \in 1..Len(conllu_lines) :
               ~TrueToken(conllu_lines[i]) => aug[i] = 0

\* A grouping-artifact line followed by a true token, which receives the tag of
\* the first record.
AlignmentCursorWitness ==
    /\ Started
    /\ Len(conllu_lines) = 2
    /\ ~CommentOrBlank(conllu_lines[1])
    /\ \E c \in 1..Len(Cols(conllu_lines[1])[1]) :
           Cols(conllu_lines[1])[1][c] \in {"-", "."}
    /\ TrueToken(conllu_lines[2])
    /\ aug = <<0, 1>>
    /\ tsv_index = 1

\* C6 (Alignment passthrough): with fewer tag records than true tokens, every
\* true-token line beyond the last record is written identical to its input,
\* and the merge can finish and return True.
AlignmentPassthrough ==
    (Started /\ Rank(Len(conllu_lines)) > Len(tsv_data)) =>
        /\ \A i \in 1..Len(conllu_lines) :
               (TrueToken(conllu_lines[i]) /\ Rank(i) > Len(tsv_data)) =>
                   out[i] = conllu_lines[i]
        /\ mpc = "conllu" => ENABLED FinishMerge

\* A finished merge with one tag record and two true tokens.
AlignmentPassthroughWitness ==
    /\ mpc = "merged"
    /\ Len(tsv_data) = 1
    /\ Rank(Len(conllu_lines)) = 2

\* C7 (Tag-stream header handling): a header line is never used as the tag of
\* a primary token, and without a header the first record of the stream is
\* used as data.
\* The places <<file, line>> of the tag stream that hold a record: the lines
\* that are neither blank nor a header.
RealRecords ==
    {fl \in (1..Len(tsv_files)) \X (1..MaxTsv + 1) :
        /\ fl[2] <= Len(tsv_files[fl[1]])
        /\ strip(tsv_files[fl[1]][fl[2]]) \notin {<<>>, HEADER}}

Precedes(a, b) == a[1] < b[1] \/ (a[1] = b[1] /\ a[2] <= b[2])

HeaderNeverUsedAsTag ==
    \A i \in 1..Len(out) :
        aug[i] # 0 =>
            /\ strip(SourceLine(tsv_data[aug[i]])) # HEADER
            /\ aug[i] = 1 =>
                   \A fl \in RealRecords :
                       Precedes(<<tsv_data[1].file, tsv_data[1].line>>, fl)

\* C8 (Merge output frame): as many lines out as in, in the same order; a line
\* that is no true token is written unchanged; a line that differs is a true
\* token, and differs only by the attribute added in its tenth column (absent
\* columns being written as '_').
OnlyAttributeAdded(in, written) ==
    /\ written = join(<<TAB>>, Cols(written)) \o <<NL>>
    /\ Len(Cols(written)) = IF Len(Cols(in)) > 10 THEN Len(Cols(in)) ELSE 10
    /\ \A j \in 1..9 :
           Cols(written)[j] = IF j <= Len(Cols(in)) THEN Cols(in)[j] ELSE <<"_">>
    /\ \E k \in 1..Len(tsv_data) :
           Cols(written)[10] =
               (IF Len(Cols(in)) >= 10 /\ Cols(in)[10] # <<"_">>
                THEN Cols(in)[10] \o <<"|">> ELSE <<>>)
               \o NER_KEY \o tsv_data[k].tag

MergeOutputFrame ==
    Started =>
        /\ Len(out) = Len(conllu_lines)
        /\ \A i \in 1..Len(out) :
               /\ ~TrueToken(conllu_lines[i]) => out[i] = conllu_lines[i]
               /\ out[i] # conllu_lines[i] =>
                      /\ TrueToken(conllu_lines[i])
                      /\ OnlyAttributeAdded(conllu_lines[i], out[i])

\* A grouping-artifact line written unchanged after an augmented token line.
MergeOutputFrameWitness ==
    /\ Started
    /\ Len(out) = 2
    /\ out[1] # conllu_lines[1]
    /\ \E c \in 1..Len(Cols(conllu_lines[2])[1]) : Cols(conllu_lines[2])[1][c] \in {"-", "."}
    /\ out[2] = conllu_lines[2]

\* C9 (Augmentation policy): on an augmented line, an absent tenth column ('_'
\* or missing) becomes exactly NER=<tag>, a tenth column with content becomes
\* <content>|NER=<tag>, and the columns before it are those of the input.
AugmentationPolicy ==
    \A i \in 1..Len(out) :
        aug[i] # 0 =>
            LET in == Cols(conllu_lines[i])
                written == Cols(out[i])
                attr == NER_KEY \o tsv_data[aug[i]].tag
            IN /\ Len(written) >= 10
               /\ (Len(in) < 10 \/ in[10] = <<"_">>) => written[10] = attr
               /\ (Len(in) >= 10 /\ in[10] # <<"_">>) =>
                      written[10] = in[10] \o <<"|">> \o attr
               /\ \A j \in 1..9 : j <= Len(in) => written[j] = in[j]

\* All three cases on augmented lines: content kept, '_' replaced, column missing.
AugmentationPolicyWitness ==
    /\ \E i \in 1..Len(out) :
           aug[i] # 0 /\ Len(Cols(conllu_lines[i])) >= 10
                      /\ Cols(conllu_lines[i])[10] # <<"_">>
    /\ \E i \in 1..Len(out) :
           aug[i] # 0 /\ Len(Cols(conllu_lines[i])) < 10

\* C10 (No normalization at merge time): the value written under NER is the
\* second field of the tag-stream line the record at the cursor was read from,
\* character for character.
NoNormalizationAtMerge ==
    \A i \in 1..Len(out) :
        (aug[i] # 0 /\ Len(Cols(SourceLine(tsv_data[aug[i]]))) >= 2) =>
            /\ Len(Cols(out[i])) >= 10
            /\ \/ Cols(out[i])[10] =
                      NER_KEY \o Cols(SourceLine(tsv_data[aug[i]]))[2]
               \/ EndsWith(Cols(out[i])[10],
                      <<"|">> \o NER_KEY \o Cols(SourceLine(tsv_data[aug[i]]))[2])

\* A token augmented with a multi-layer tag, whose layers are kept.
NoNormalizationAtMergeWitness ==
    \E i \in 1..Len(out) :
        /\ aug[i] # 0
        /\ Len(Cols(SourceLine(tsv_data[aug[i]]))) >= 2
        /\ Cols(SourceLine(tsv_data[aug[i]]))[2] = <<"B", "-", "P", "|", "B", "-", "p", "f">>
        /\ EndsWith(Cols(out[i])[10], <<"=", "B", "-", "P", "|", "B", "-", "p", "f">>)

(***************************************************************************)
(* Properties of the aggregate report.                                     *)
(***************************************************************************)
\* The k-th (text, type, count) triple of a row.
Triple(r, k) == <<r[3 * k], r[3 * k + 1], r[3 * k + 2]>>

PaddingTriple == << <<>>, "", 0 >>

Occurrences(e, elems) == Cardinality({i \in DOMAIN elems : elems[i] = e})

FirstMet(e, elems) == CHOOSE i \in DOMAIN elems :
                          elems[i] = e /\ \A j \in 1..(i - 1) : elems[j] # e

Listed(r, n) == {<<r[3 * k], r[3 * k + 1]>> : k \in 1..n}

\* C11: every aggregate row has exactly 3*N+2 fields with N = 20: the
\* document id, the page index, then N triples, of which those after the
\* distinct spans of the page (or after the N-th) are padding with empty
\* text, empty type and count 0; the header row has the same width.
AggregateWidth ==
    /\ top_n = 20
    /\ Len(header) = 3 * top_n + 2
    /\ agg_row # <<>> =>
         /\ Len(agg_row) = 3 * top_n + 2
         /\ agg_row[1] = <<"d", "o", "c">>
         /\ agg_row[2] = 1
         /\ \A k \in 1..top_n :
              IF k <= NDistinct(page_entities)
              THEN /\ <<agg_row[3 * k], agg_row[3 * k + 1]>> \in
                          {page_entities[i] : i \in DOMAIN page_entities}
                   /\ agg_row[3 * k + 2] >= 1
              ELSE Triple(agg_row, k) = PaddingTriple

\* A page with three distinct spans: triples 4 to 20 are padding.
AggregateWidthWitness ==
    /\ agg_row # <<>>
    /\ NDistinct(page_entities) = 3
    /\ agg_row[11] >= 1
    /\ Triple(agg_row, 4) = PaddingTriple
    /\ Triple(agg_row, top_n) = PaddingTriple

\* C12: the row of a page lists distinct (text, type) pairs with their
\* numbers of occurrences, in non-increasing order of count, pairs of equal
\* count in the order they were first met, and no pair left out occurs more
\* often than a pair listed.
AggregateRanking ==
    agg_row # <<>> =>
        LET n == IF NDistinct(page_entities) < top_n
                 THEN NDistinct(page_entities) ELSE top_n
        IN /\ \A k \in 1..n :
                /\ \E i \in DOMAIN page_entities :
                       page_entities[i] = <<agg_row[3 * k], agg_row[3 * k + 1]>>
                /\ agg_row[3 * k + 2] =
                       Occurrences(<<agg_row[3 * k], agg_row[3 * k + 1]>>, page_entities)
           /\ \A k, j \in 1..n :
                k < j =>
                  /\ <<agg_row[3 * k], agg_row[3 * k + 1]>> #
                         <<agg_row[3 * j], agg_row[3 * j + 1]>>
                  /\ agg_row[3 * k + 2] >= agg_row[3 * j + 2]
                  /\ agg_row[3 * k + 2] = agg_row[3 * j + 2] =>
                         FirstMet(<<agg_row[3 * k], agg_row[3 * k + 1]>>, page_entities)
                         < FirstMet(<<agg_row[3 * j], agg_row[3 * j + 1]>>, page_entities)
           /\ \A i \in DOMAIN page_entities :
                page_entities[i] \notin Listed(agg_row, n) =>
                    \A k \in 1..n :
                        Occurrences(page_entities[i], page_entities) <= agg_row[3 * k + 2]

\* A page with 21 distinct spans: the 21st, met last but twice, is listed
\* first, and the 20th is left out.
AggregateRankingWitness ==
    /\ agg_row # <<>>
    /\ NDistinct(page_entities) = top_n + 1
    /\ <<agg_row[3], agg_row[4]>> = Ent(top_n + 1)
    /\ agg_row[5] = 2
    /\ Ent(top_n) \notin Listed(agg_row, top_n)
    /\ <<agg_row[3 * top_n], agg_row[3 * top_n + 1]>> = Ent(top_n - 1)

\* The rows of the report after the header row.
Rows == Tail(stats)

\* The pages of the decoded file that hold at least one span.
PagesWithSpans == {p \in DOMAIN st.pages : st.pages[p] # <<>>}

\* C13 as stated: the report has no row for a page without entity span, and
\* every row has a first triple with non-empty text and count at least 1.
RowsStartWithText ==
    /\ \A r \in DOMAIN Rows : Rows[r][2] \in PagesWithSpans
    /\ \A r \in DOMAIN Rows : Rows[r][3] # <<>> /\ Rows[r][5] >= 1

\* C13: the report has no row for a page without entity span and one row for
\* each page with a span, in page order; the first triple of every row is a
\* span of that page, with a type and a count of at least 1. Its text is the
\* span's, which is empty for a span of one token with empty text.
ZeroSpanPagesOmitted ==
    /\ dpc # "reported" => Rows = <<>>
    /\ dpc = "reported" =>
         /\ {Rows[r][2] : r \in DOMAIN Rows} = PagesWithSpans
         /\ \A r, q \in DOMAIN Rows : r < q => Rows[r][2] < Rows[q][2]
    /\ \A r \in DOMAIN Rows :
         /\ Rows[r][2] \in PagesWithSpans
         /\ \E i \in DOMAIN st.pages[Rows[r][2]] :
                st.pages[Rows[r][2]][i] = <<Rows[r][3], Rows[r][4]>>
         /\ Rows[r][4] \notin {"", None}
         /\ Rows[r][5] >= 1
         /\ Rows[r][3] = <<>> =>
                \E i \in DOMAIN spanned : spanned[i] = <<>>

\* Page 1 holds a token and no span, page 2 a span: the only row is page 2's.
ZeroSpanPagesOmittedWitness ==
    /\ dpc = "reported"
    /\ n_none >= 1
    /\ span_log # <<>>
    /\ \A i \in DOMAIN span_log : span_log[i].tok_pages = <<2>>
    /\ Len(Rows) = 1
    /\ Rows[1][2] = 2
    /\ Rows[1][3] # <<>>

\* The canonical categories: the values of the type table.
Categories == {CNEC_TYPE_MAP[k] : k \in DOMAIN CNEC_TYPE_MAP}

\* The short codes carried by the tags of DecLines, the empty one included.
CodesRead == {"ps", "gu", "g", "zz", ""}

UnknownMarkers == {"Unknown Code (" \o c \o ")" : c \in CodesRead \ {""}}

\* C14: the type of every entity span emitted by get_entities_by_page is a
\* value of the type table or a synthesized "Unknown Code (<code>)" marker,
\* never the raw short code.
SpanTypeCanonical ==
    /\ \A p \in DOMAIN st.pages : \A i \in DOMAIN st.pages[p] :
         /\ st.pages[p][i][2] \in Categories \cup UnknownMarkers
         /\ st.pages[p][i][2] \notin CodesRead \cup DOMAIN CNEC_TYPE_MAP
    /\ st.curr_toks # <<>> =>
         /\ st.curr_type \in Categories \cup UnknownMarkers
         /\ st.curr_type \notin CodesRead \cup DOMAIN CNEC_TYPE_MAP
    /\ \A r \in DOMAIN Rows : \A k \in 1..top_n :
         Rows[r][3 * k + 1] \in Categories \cup UnknownMarkers \cup {""}

\* A file with a span of a known code, one of an unknown code and one of an
\* empty code has been decoded.
SpanTypeCanonicalWitness ==
    /\ dpc = "done"
    /\ \E p \in DOMAIN st.pages : \E i \in DOMAIN st.pages[p] :
           st.pages[p][i] = <<<<"E", "v", "a">>, "Unknown Code (zz)">>
    /\ \E p \in DOMAIN st.pages : \E i \in DOMAIN st.pages[p] :
           st.pages[p][i] = <<<<"x">>, "Unknown Type">>
    /\ \E p \in DOMAIN st.pages : \E i \in DOMAIN st.pages[p] :
           st.pages[p][i][2] = "Surname"

(***************************************************************************)
(* Properties of the tag normalizer.                                       *)
(***************************************************************************)
\* The raw field is a single-layer tag B-c or I-c; c is its short code.
IsBioTag(raw) ==
    /\ Len(raw) >= 2
    /\ raw[1] \in {"B", "I"}
    /\ raw[2] = "-"
    /\ \A i \in DOMAIN raw : raw[i] # "|"

CodeOf(raw) == SubSeq(raw, 3, Len(raw))

\* C15: for a B-/I- tag with short code c the normalizer returns the table
\* entry of c when c is a key of the table (exact, case-sensitive match),
\* "Unknown Code (c)" when c is not empty and not a key, and "Unknown Type"
\* when c is empty.
NormalizerResult ==
    tag_out # <<>> /\ IsBioTag(tag_in) =>
        /\ tag_out[1] = tag_in
        /\ tag_out[2] =
             IF CodeOf(tag_in) = <<>> THEN "Unknown Type"
             ELSE IF Str(CodeOf(tag_in)) \in DOMAIN CNEC_TYPE_MAP
             THEN CNEC_TYPE_MAP[Str(CodeOf(tag_in))]
             ELSE "Unknown Code (" \o Str(CodeOf(tag_in)) \o ")"
        /\ CodeOf(tag_in) = <<"g", "u">> => tag_out[2] = "Settlement name (City/Town)"
        /\ CodeOf(tag_in) = <<"G", "u">> => tag_out[2] = "Unknown Code (Gu)"
        /\ CodeOf(tag_in) = <<"G">> => tag_out[2] = "Geographical name (General)"

\* The tag "B-" has been normalized.
NormalizerResultWitness ==
    /\ tag_in = <<"B", "-">>
    /\ tag_out = <<<<"B", "-">>, "Unknown Type">>

\* C16: on every string, the empty one included, the call ends with a result;
\* the result is the tag O without a type or a B-/I- tag with a type name
\* that is not empty, and a B-/I- tag, whatever its short code, gets a name.
NormalizerTotality ==
    tag_out # <<>> =>
        /\ \/ tag_out = <<<<"O">>, None>>
           \/ /\ startswith(tag_out[1], <<"B", "-">>) \/ startswith(tag_out[1], <<"I", "-">>)
              /\ tag_out[2] \notin {"", None}
        /\ IsBioTag(tag_in) => tag_out[2] \notin {"", None}

\* An unknown three-character code has been given its name.
NormalizerTotalityWitness ==
    /\ tag_in = <<"I", "-", "=", "u", "-">>
    /\ tag_out[2] = "Unknown Code (=u-)"

(***************************************************************************)
(* Properties of the page segmenters.                                      *)
(***************************************************************************)
\* A line that is neither blank nor a comment: a data record.
DataRecord(line) == strip(line) # <<>> /\ strip(line)[1] # "#"

\* A line that advances the page: '# sent_id = 1'.
PageMarker(line) ==
    /\ startswith(strip(line), SENT_ID)
    /\ Len(split1(strip(line), "=")) = 2
    /\ strip(split1(strip(line), "=")[2]) = <<"1">>

\* The page get_entities_by_page is on after the k-th line of the file.
PageAfter(lines, k) == DecodeFrom(DecoderStart, SubSeq(lines, 1, k)).curr_page

\* C17: both record-level page segmenters, get_entities_by_page and the
\* per-page CSV splitter, give every data record a page index of at least 1,
\* and a data record read before any page marker gets page 1.
PageIndexAtLeastOne ==
    /\ \A f \in DOMAIN csv_pages :
         /\ csv_pages[f].page_id >= 1
         /\ \A r \in DOMAIN csv_pages[f].rows : csv_pages[f].rows[r].page_id >= 1
    /\ mpc = "exported" /\ out # <<>> /\ Len(Cols(out[1])) >= 10 /\ TrueToken(out[1]) =>
              /\ csv_pages # <<>>
              /\ csv_pages[1].page_id = 1
              /\ csv_pages[1].rows[1].page_id = 1
              /\ csv_pages[1].rows[1].token = Cols(out[1])[2]
    /\ mpc = "exported" =>
         \A k \in DOMAIN out :
             DataRecord(out[k]) =>
               /\ PageAfter(out, k) >= 1
               /\ (\A j \in 1..k : ~PageMarker(out[j])) => PageAfter(out, k) = 1
    /\ \A q \in DOMAIN ents_tsv \cup DOMAIN ents_merged : q >= 1

\* A merged file that starts with a token line, with no page marker before
\* it, has been cut into pages.
PageIndexAtLeastOneWitness ==
    /\ mpc = "exported"
    /\ Len(out) = 2
    /\ TrueToken(out[1]) /\ Len(Cols(out[1])) >= 10
    /\ PageMarker(out[2])
    /\ Len(csv_pages) = 1
    /\ csv_pages[1].page_id = 1
    /\ Len(csv_pages[1].rows) = 1

(***************************************************************************)
(* The end-to-end example.                                                 *)
(***************************************************************************)
\* The tag file holds the four tokens with the tags B-gu, O, O, O, and the
\* primary file the four token lines.
ExampleRead ==
    /\ tsv_files = << <<ExampleTsvLine(1, <<"B", "-", "g", "u">>),
                        ExampleTsvLine(2, <<"O">>),
                        ExampleTsvLine(3, <<"O">>),
                        ExampleTsvLine(4, <<"O">>)>> >>
    /\ Len(conllu_lines) = 4
    /\ \A i \in 1..4 :
         /\ Cols(conllu_lines[i])[1] = <<ToString(i)>>
         /\ Cols(conllu_lines[i])[2] = ExampleTokens[i]

PrahaSpan == << <<"P", "r", "a", "h", "a">>, "Settlement name (City/Town)" >>

\* C18: for the true tokens Praha, je, hlavni, mesto at positions 1 to 4 and
\* the tags B-gu, O, O, O, the decoder emits exactly one span, 'Praha' of
\* type 'Settlement name (City/Town)', the merged line of token 1 gains the
\* attribute NER=B-gu, and the aggregate row of the page lists
\* ('Praha', 'Settlement name (City/Town)', 1) followed by N-1 padding triples.
EndToEndExample ==
    ExampleRead =>
        /\ mpc \in {"merged", "analyzed", "reported"} =>
             /\ Len(out) = 4
             /\ Cols(out[1]) = SubSeq(Cols(conllu_lines[1]), 1, 9)
                                \o << <<"N", "E", "R", "=", "B", "-", "g", "u">> >>
             /\ \A i \in 2..4 : Cols(out[i])[10] = <<"N", "E", "R", "=", "O">>
        /\ mpc \in {"analyzed", "reported"} =>
             /\ DOMAIN ents_tsv = {1}
             /\ ents_tsv[1] = <<PrahaSpan>>
        /\ mpc = "reported" =>
             /\ Len(Rows) = 1
             /\ Len(Rows[1]) = 3 * top_n + 2
             /\ Rows[1][2] = 1
             /\ Triple(Rows[1], 1) = <<PrahaSpan[1], PrahaSpan[2], 1>>
             /\ \A k \in 2..top_n : Triple(Rows[1], k) = PaddingTriple

\* The example has gone through the merge, the decoder and the report.
EndToEndExampleWitness ==
    /\ ExampleRead
    /\ mpc = "reported"
    /\ Len(Rows) = 1
    /\ aug = <<1, 2, 3, 4>>

(***************************************************************************)
(* Error handling of the merge.                                            *)
(***************************************************************************)
\* C19: a tag-stream line with fewer than two fields is skipped by the merge:
\* it supplies no tag and takes no alignment step, so that every augmented
\* line carries the tag of a record read from a line with two fields or more.
MalformedTagLinesSkipped ==
    \A i \in DOMAIN out :
        aug[i] # 0 => Len(Cols(SourceLine(tsv_data[aug[i]]))) >= 2

\* C20: when the form of a true-token line differs from the token of the tag
\* record at the cursor, the merge prints a warning, and still augments the
\* line with the record's tag, moves the cursor on and can finish.
TokenMismatchWarned ==
    /\ \A i \in DOMAIN out :
         (aug[i] # 0 /\ Cols(conllu_lines[i])[2] # tsv_data[aug[i]].token) =>
             /\ \E w \in DOMAIN warnings :
                    warnings[w] = <<Cols(conllu_lines[i])[2], tsv_data[aug[i]].token>>
             /\ EndsWith(Cols(out[i])[10], NER_KEY \o tsv_data[aug[i]].tag)
             /\ tsv_index >= aug[i]
    /\ mpc = "conllu" => ENABLED FinishMerge

(***************************************************************************)
(* The BIO rules of get_entities_by_page, stated on the line read last.    *)
(***************************************************************************)
\* The line read last as the loop body sees it.
LastParsed == ParseLine(line_read)

\* A span is open: the loop runs and curr_toks is not empty.
SpanOpen == dpc = "read" /\ st.curr_toks # <<>>

\* C24: every span that is opened is emitted exactly once, no later than the
\* end of the stream: while the loop runs the spans opened are the spans
\* recorded and the open one, and once the file has ended every span opened
\* is recorded, the one still open at the last line included.
NoSpanDropped ==
    /\ dpc = "read" =>
         n_open = Len(SpansInPageOrder(st.pages)) + (IF SpanOpen THEN 1 ELSE 0)
    /\ dpc # "read" =>
         /\ n_open = Len(SpansInPageOrder(st.pages))
         /\ TokensOf(SpansInPageOrder(st.pages)) = spanned

\* The file ended on an I- line inside the second span, which is recorded.
NoSpanDroppedWitness ==
    /\ dpc = "done"
    /\ n_open = 2
    /\ LastParsed.kind = "data"
    /\ startswith(LastParsed.tag, <<"I", "-">>)
    /\ Len(SpansInPageOrder(st.pages)) = 2

\* The tag of the line read last, reduced to its first layer: the field after
\* the last tab, the value of its NE feature if it has one, up to the first
\* pipe.
IncomingTag ==
    IF LastParsed.kind = "data"
    THEN split(NeFeature(split(strip(line_read), TAB)[Len(split(strip(line_read), TAB))]),
               "|")[1]
    ELSE <<>>

\* The type a B- or I- tag stands for.
TypeOfTag(tag) ==
    FullTypeName(IF Len(tag) > 2 THEN Str(SubSeq(tag, 3, Len(tag))) ELSE "unk")

\* A tag that is neither 'O' nor B-prefixed nor I-prefixed.
MalformedTag(tag) ==
    /\ tag # <<"O">>
    /\ ~startswith(tag, <<"B">>)
    /\ ~startswith(tag, <<"I">>)

\* The spans recorded so far, and those recorded before the line read last,
\* in the order of their recording.
Emitted == SpansInPageOrder(st.pages)

EmittedBefore == SpansInPageOrder(prev.pages)

\* The span that was open before the line read last, as the record it is
\* emitted as.
OpenSpan == <<join(<<" ">>, prev.curr_toks), prev.curr_type>>

\* The loop body has just run on a data line: prev holds the locals before the
\* line, st the locals after it.
ReadsData == dpc = "read" /\ LastParsed.kind = "data"

\* C25: when no span is open and the incoming tag is an I- tag, the token is
\* treated as O: no span is opened and the decoder stays idle.
IdleInsideTreatedAsOutside ==
    (ReadsData /\ prev.curr_toks = <<>> /\ startswith(IncomingTag, <<"I", "-">>)) =>
        /\ st.curr_toks = <<>>
        /\ st.curr_type = None

\* C26: when no span is open and the incoming tag is neither 'O' nor
\* B-prefixed nor I-prefixed, the tag is an implicit B: a new span is opened
\* with this token.
IdleMalformedOpensSpan ==
    (ReadsData /\ prev.curr_toks = <<>> /\ MalformedTag(IncomingTag)) =>
        st.curr_toks = <<LastParsed.tok>>

\* C27: on a B- tag, with or without an open span, the open span is recorded
\* first, with its own tokens and type, and the new open span holds exactly
\* this token, with the type of this tag.
BeginRule ==
    (ReadsData /\ startswith(IncomingTag, <<"B", "-">>)) =>
        /\ Emitted = IF prev.curr_toks # <<>> THEN Append(EmittedBefore, OpenSpan)
                                              ELSE EmittedBefore
        /\ st.curr_toks = <<LastParsed.tok>>
        /\ st.curr_type = TypeOfTag(IncomingTag)

\* 'Jan Novak' was open when the B- line of 'Praha' was read: it is recorded
\* and 'Praha' is the open span, of the type of its first layer.
BeginRuleWitness ==
    /\ dpc = "read"
    /\ n_read = 3
    /\ startswith(IncomingTag, <<"B", "-">>)
    /\ prev.curr_toks = <<<<"J", "a", "n">>, <<"N", "o", "v", "a", "k">>>>
    /\ Emitted = <<<<<<"J", "a", "n", " ", "N", "o", "v", "a", "k">>, CNEC_TYPE_MAP["ps"]>>>>
    /\ st.curr_toks = <<<<"P", "r", "a", "h", "a">>>>
    /\ st.curr_type = CNEC_TYPE_MAP["gu"]

\* C29: on an O tag, with or without an open span, the open span is recorded
\* and the decoder is left with no tokens and no type; the token of an O line
\* is in no span.
OutsideRule ==
    /\ (ReadsData /\ IncomingTag = <<"O">>) =>
        /\ Emitted = IF prev.curr_toks # <<>> THEN Append(EmittedBefore, OpenSpan)
                                              ELSE EmittedBefore
        /\ st.curr_toks = <<>>
        /\ st.curr_type = None
    /\ TokensOf(Emitted) \o st.curr_toks = spanned \/ dpc # "read"
    /\ Len(spanned) + n_none = n_tok

\* 'Jan' was open when the O line of 'je' was read: it is recorded and the
\* decoder is idle.
OutsideRuleWitness ==
    /\ dpc = "read"
    /\ n_read = 2
    /\ IncomingTag = <<"O">>
    /\ prev.curr_toks = <<<<"J", "a", "n">>>>
    /\ Emitted = <<<<<<"J", "a", "n">>, CNEC_TYPE_MAP["ps"]>>>>
    /\ st.curr_toks = <<>>
    /\ st.curr_type = None

\* The rule get_entities_by_page follows on an I- tag with a span open: the
\* token joins the open span and the type stays, whatever the tag's type code.
InsideRuleOfAnalyze ==
    (ReadsData /\ prev.curr_toks # <<>> /\ startswith(IncomingTag, <<"I", "-">>)) =>
        /\ st.curr_toks = Append(prev.curr_toks, LastParsed.tok)
        /\ st.curr_type = prev.curr_type
        /\ Emitted = EmittedBefore

(***************************************************************************)
(* The BIO rules of parse_nametag_response.                                *)
(***************************************************************************)
\* The fields of the line read last.
NtParts == split(nt_line, TAB)

\* The loop body has just run on a (word, tag) line.
NtReadsData ==
    /\ nt_pc = "read"
    /\ nt_read >= 1
    /\ ~startswith(nt_line, <<"#">>)
    /\ Len(NtParts) >= 2

\* C28: on an I- tag while a span is open, the token is appended to the open
\* span and the span's type is left unchanged, even when the tag carries
\* another type code: no span is closed and none is recorded.
InsideRule ==
    (NtReadsData /\ nt_prev.current_entity_text # <<>>
                 /\ startswith(NtParts[2], <<"I", "-">>)) =>
        /\ nt.current_entity_text = Append(nt_prev.current_entity_text, NtParts[1])
        /\ nt.current_entity_type = nt_prev.current_entity_type
        /\ nt.entities = nt_prev.entities

(***************************************************************************)
(* Multi-layer tags.                                                       *)
(***************************************************************************)
NE_KEY == <<"N", "E", "=">>

\* The tag held by the raw field passed in: the field itself, or what follows
\* the key of its NE feature, which is its first or its second feature.
TagText ==
    IF startswith(tag_in, NE_KEY) THEN SubSeq(tag_in, 4, Len(tag_in))
    ELSE IF startswith(tag_in, <<"S", "=", "N", "|">> \o NE_KEY)
    THEN SubSeq(tag_in, 8, Len(tag_in))
    ELSE tag_in

\* The position of the first pipe of s, 0 when s has none.
FirstPipe(s) ==
    IF \E i \in DOMAIN s : s[i] = "|"
    THEN CHOOSE i \in DOMAIN s : s[i] = "|" /\ \A j \in 1..(i - 1) : s[j] # "|"
    ELSE 0

\* The first layer of the tag passed in.
FirstLayer == SubSeq(TagText, 1, FirstPipe(TagText) - 1)

\* The tag passed in holds several layers, none of which is a feature
\* (key=value) of a CoNLL-U column.
MultiLayer ==
    /\ FirstPipe(TagText) > 0
    /\ \A i \in DOMAIN TagText : TagText[i] # "="

\* C30: when the raw tag holds several pipe-separated layers, the B/I/O
\* decision and the type come from the first layer: the result is the result
\* of the first layer alone, whatever the later layers are.
FirstLayerOnly ==
    (tag_out # <<>> /\ MultiLayer) =>
        /\ tag_out = parse_tag_and_type(FirstLayer)
        /\ tag_out[1] = IF \/ startswith(FirstLayer, <<"B", "-">>)
                           \/ startswith(FirstLayer, <<"I", "-">>)
                        THEN FirstLayer ELSE <<"O">>
        /\ tag_out[2] = IF tag_out[1] = <<"O">> THEN None ELSE TypeOfTag(FirstLayer)

\* 'B-P|B-pf' has been normalized: the tag and the type are those of 'B-P'.
FirstLayerOnlyWitness ==
    /\ tag_in = <<"B", "-", "P", "|", "B", "-", "p", "f">>
    /\ tag_out = <<<<"B", "-", "P">>, CNEC_TYPE_MAP["P"]>>
    /\ CNEC_TYPE_MAP["P"] # CNEC_TYPE_MAP["pf"]

(***************************************************************************)
(* Properties of the batch drivers.                                        *)
(***************************************************************************)
MergeDrivers == {"process_directory", "process_pipeline"}

\* process_pipeline: the output directory of document d holds as many CSV
\* files as the document has tag files, so that the run has nothing to do.
AlreadyComplete(d) ==
    /\ driver = "process_pipeline"
    /\ Len(docs[d].tags.files) > 0
    /\ Len(docs[d].tags.files) = docs[d].csv_before

\* process_pipeline: the tag files of document d hold no record.
NoRecords(d) ==
    /\ driver = "process_pipeline"
    /\ \A f \in DOMAIN docs[d].tags.files : Len(docs[d].tags.files[f]) <= 1

\* What the driver writes for document d when d is the only document.
OwnMerge(d) ==
    IF driver = "process_directory"
    THEN merge_single_pair(docs[d].primary, docs[d].tags.files[1])
    ELSE process_merged_file_into_pages(
             merge_and_write(docs[d].primary,
                             get_sorted_tsv_content(docs[d].tags.files)))

\* C21: a document whose tag input is missing is passed over with a message
\* and nothing is written for it; the loop reaches the end of the batch, and
\* every document that has both inputs is merged as it is when it is alone,
\* whatever the other documents lack.  (process_pipeline also passes over,
\* each on its own account, a document whose output is complete and one whose
\* tag files hold no record.)
MissingInputIsolated ==
    driver \in MergeDrivers =>
        /\ \A d \in DOMAIN log :
               ~docs[d].tags.exists =>
                   /\ d \notin DOMAIN outputs
                   /\ log[d] \in {"[Skip] Missing matching TSV file",
                                  "[Skip] No TSV directory found"}
        /\ Len(log) = doc_i
        /\ bpc = "end" =>
               /\ doc_i = Len(docs)
               /\ Len(log) = Len(docs)
               /\ \A d \in DOMAIN docs :
                      (docs[d].tags.exists /\ ~AlreadyComplete(d) /\ ~NoRecords(d)) =>
                          /\ d \in DOMAIN outputs
                          /\ outputs[d] = OwnMerge(d)
                          /\ outputs[d] # <<>>

\* A batch of three, the second without tag input: the first and the third
\* are merged, the second is not.
MissingInputIsolatedWitness ==
    /\ bpc = "end"
    /\ driver = "process_directory"
    /\ Len(docs) = 3
    /\ ~docs[2].tags.exists
    /\ DOMAIN outputs = {1, 3}
    /\ Len(outputs[3]) = Len(docs[3].primary)

\* C22: at the end of a batch the driver reports a tally of succeeded and
\* failed documents, in which every document is counted once.
TallyCountsEveryDocument ==
    bpc = "end" =>
        /\ Len(tally) = 2
        /\ tally[1] + tally[2] = Len(docs)

\* The name main writes in the rows of the d-th file.
Stem(d) == <<"d", ToString(d)>>

\* The rows of the report that bear the name of the d-th file.
RowsFor(d) == SelectSeq(Rows, LAMBDA r : r[1] = Stem(d))

\* The rows main writes for the d-th file when no other file is in the batch.
Alone(d) ==
    IF docs[d].readable
    THEN RowsOf(BatchFile(d), get_entities_by_page(docs[d].primary),
                sorted(DOMAIN get_entities_by_page(docs[d].primary)))
    ELSE <<>>

\* C23: the rows of the report written for a file are the rows written for it
\* when it is alone, whether or not another file of the batch fails to parse;
\* a file that fails has no row, and every row is a row of a file taken.
FailureNonInterference ==
    driver = "main" =>
        /\ \A d \in 1..doc_i :
               /\ RowsFor(d) = Alone(d)
               /\ ~docs[d].readable => RowsFor(d) = <<>>
        /\ \A r \in DOMAIN Rows : \E d \in 1..doc_i : Rows[r][1] = Stem(d)
        /\ stats[1] = header

\* A batch of three files with spans, of which the second cannot be read: the
\* report holds the rows of the first and of the third.
FailureNonInterferenceWitness ==
    /\ bpc = "end"
    /\ driver = "main"
    /\ Len(docs) = 3
    /\ ~docs[2].readable
    /\ get_entities_by_page(docs[2].primary) # <<>>
    /\ RowsFor(1) # <<>>
    /\ RowsFor(2) = <<>>
    /\ Len(RowsFor(3)) = 2

(***************************************************************************)
(* The page counters of the two sentence-reset segmenters.                 *)
(***************************************************************************)
\* The two page counters before the k-th line of the stream was read.
DecBefore(k) == IF k = 1 THEN 0 ELSE seg_trace[k - 1].dec

SplitBefore(k) == IF k = 1 THEN 0 ELSE seg_trace[k - 1].split

\* The rows process_merged_file_into_pages has made so far, in the order it
\* made them: those of the files written, then those of the page still open.
RECURSIVE RowsWritten(_)
RowsWritten(files) ==
    IF files = <<>> THEN <<>> ELSE Head(files).rows \o RowsWritten(Tail(files))

SegRows == RowsWritten(seg_split.written) \o seg_split.current_rows

NonDecreasing(s) == \A i, j \in DOMAIN s : i <= j => s[i] <= s[j]

\* C31: in get_entities_by_page and in process_merged_file_into_pages the
\* page counter goes up by exactly one at each '# sent_id = 1' line, goes
\* from 0 to 1 at the first line the loop takes as a record when no marker
\* came before it, and is changed by no other line.  The page indices given
\* to successive records never decrease, and the per-page files are written
\* in strictly increasing page order, each holding the rows of its page only.
PageCounterSteps ==
    /\ \A k \in DOMAIN seg_trace :
         /\ seg_trace[k].dec =
              IF PageMarker(seg_trace[k].line) THEN DecBefore(k) + 1
              ELSE IF DecBefore(k) = 0 /\ DataRecord(seg_trace[k].line) THEN 1
              ELSE DecBefore(k)
         /\ seg_trace[k].split =
              IF PageMarker(seg_trace[k].line) THEN SplitBefore(k) + 1
              ELSE IF SplitBefore(k) = 0 /\ SegBranch(seg_trace[k].line) = "row" THEN 1
              ELSE SplitBefore(k)
    /\ NonDecreasing(seg_rec)
    /\ NonDecreasing([r \in DOMAIN SegRows |-> SegRows[r].page_id])
    /\ \A f, g \in DOMAIN seg_split.written :
         f < g => seg_split.written[f].page_id < seg_split.written[g].page_id
    /\ \A f \in DOMAIN seg_split.written :
         \A r \in DOMAIN seg_split.written[f].rows :
             seg_split.written[f].rows[r].page_id = seg_split.written[f].page_id

\* A token line read before any marker, a marker, and a token line after it:
\* the two records are on pages 1 and 2 in both segmenters, and two files
\* have been written.
PageCounterStepsWitness ==
    /\ seg_pc = "done"
    /\ Len(seg_trace) = 3
    /\ SegBranch(seg_trace[1].line) = "row"
    /\ PageMarker(seg_trace[2].line)
    /\ SegBranch(seg_trace[3].line) = "row"
    /\ seg_rec = <<1, 2>>
    /\ Len(seg_split.written) = 2
    /\ seg_split.written[1].page_id = 1
    /\ seg_split.written[2].page_id = 2

(***************************************************************************)
(* The page of a sentence in parse_nametag_response.                       *)
(***************************************************************************)
\* C32: every sentence of the tagger response is given a page index of at
\* least 1.
SentencePageAtLeastOne == \A i \in DOMAIN sent_pages : sent_pages[i] >= 1

(***************************************************************************)
(* The per-page export of the merged file.                                 *)
(***************************************************************************)
\* The indices of the lines of the merged file that give a row, in order.
RECURSIVE RowLinesFrom(_, _)
RowLinesFrom(lines, k) ==
    IF k > Len(lines) THEN <<>>
    ELSE (IF SegBranch(lines[k]) = "row" THEN <<k>> ELSE <<>>) \o RowLinesFrom(lines, k + 1)

RowLines == RowLinesFrom(out, 1)

\* The rows of the per-page files, in the order they were made.
ExportedRows == RowsWritten(csv_pages)

\* C33: once the merged file is cut into pages, the row of every token line
\* that the merge augmented has, as nameTag, the raw tag of the tag record
\* the line was aligned with.
TagRoundTrip ==
    mpc = "exported" =>
        /\ Len(ExportedRows) = Len(RowLines)
        /\ \A i \in DOMAIN RowLines :
               aug[RowLines[i]] # 0 =>
                   ExportedRows[i].nameTag = tsv_data[aug[RowLines[i]]].tag

\* C34: every row of a per-page file comes from a true-token line of the
\* merged file, and a line whose id holds '-' or '.' gives no row.
ExportRowsAreTrueTokens ==
    mpc = "exported" =>
        /\ Len(ExportedRows) = Len(RowLines)
        /\ \A i \in DOMAIN RowLines :
               /\ TrueToken(out[RowLines[i]])
               /\ ExportedRows[i].position = Cols(out[RowLines[i]])[1]

(***************************************************************************)
(* get_ne_suffix.                                                          *)
(***************************************************************************)
Layers == split(tag_string, "|")

\* The text of a layer after its 'B-' or 'I-' prefix.
AfterPrefix(t) == SubSeq(t, 3, Len(t))

HasPrefix(t) == Len(t) >= 2 /\ t[2] = "-" /\ t[1] \in {"B", "I"}

\* C35: for a tag whose layers all start with 'B-' or 'I-' the result is the
\* '|'-joined list of the layers' texts after the prefix, and for the tag 'O'
\* the result is 'O'.
SuffixResult ==
    ne_val # <<>> =>
        /\ (tag_string # <<>> /\ \A i \in DOMAIN Layers : HasPrefix(Layers[i])) =>
               ne_val[1] = join(<<"|">>, [i \in DOMAIN Layers |-> AfterPrefix(Layers[i])])
        /\ tag_string = <<"O">> => ne_val[1] = <<"O">>

(***************************************************************************)
(* The resume rule of process_pipeline.                                    *)
(***************************************************************************)
\* The loop has written the output of document d in this run.
Processed(d) == d \in DOMAIN outputs

\* The original statement of C36: a document is passed over only when its
\* output directory holds as many CSV files as it has tag files, at least
\* one; every other document is processed.
ResumeRule ==
    driver = "process_pipeline" =>
        \A d \in DOMAIN log : Processed(d) <=> ~AlreadyComplete(d)

\* C36: a document that has a directory of tag files is skipped as complete
\* exactly when its output directory holds as many CSV files as it has tag
\* files, at least one.  Every other document whose tag files hold a record
\* is processed, or processed again, and gets the output of its own inputs;
\* nothing is written for a document that is passed over.
ResumeRuleOnTaggedDocuments ==
    driver = "process_pipeline" =>
        \A d \in DOMAIN log :
            /\ log[d] = "[Skip] Output complete" <=>
                   (docs[d].tags.exists /\ AlreadyComplete(d))
            /\ (docs[d].tags.exists /\ ~AlreadyComplete(d) /\ ~NoRecords(d)) =>
                   /\ log[d] = "[Processing]"
                   /\ Processed(d)
                   /\ outputs[d] = OwnMerge(d)
            /\ log[d] # "[Processing]" => ~Processed(d)

\* A batch of three: the first document is complete and skipped, the second
\* has one CSV file for two tag files and is processed again, the third has
\* no output yet and is processed.
ResumeRuleOnTaggedDocumentsWitness ==
    /\ bpc = "end"
    /\ driver = "process_pipeline"
    /\ Len(docs) = 3
    /\ AlreadyComplete(1)
    /\ Len(docs[2].tags.files) = 2 /\ docs[2].csv_before = 1
    /\ Len(docs[3].tags.files) = 1 /\ docs[3].csv_before = 0
    /\ log = <<"[Skip] Output complete", "[Processing]", "[Processing]">>
    /\ DOMAIN outputs = {2, 3}

(***************************************************************************)
(* The worker pool of api_0_extract_TXT.py.                                *)
(***************************************************************************)
\* C37: no two tasks that occupy a worker at the same time have the same
\* output path, and no text file is written by two tasks.
ExclusiveOutputPaths ==
    /\ \A s, t \in Running : s # t => TxtPath(tasks[s]) # TxtPath(tasks[t])
    /\ \A i, j \in DOMAIN txt_writes :
           i # j => txt_writes[i].path # txt_writes[j].path

(***************************************************************************)
(* The chunks of chunk.py.                                                 *)
(***************************************************************************)
\* The words of the files chunk_k.txt, ..., chunk_(n-1).txt, in index order.
RECURSIVE WordsOfChunks(_, _, _)
WordsOfChunks(files, k, n) ==
    IF k >= n THEN <<>>
    ELSE split_ws(files[k]) \o WordsOfChunks(files, k + 1, n)

ChunkedWords == WordsOfChunks(chunk_files, 0, Cardinality(DOMAIN chunk_files))

WordsOfText == split_ws(text)

\* C38: the chunk files are numbered from 0 without a gap; while the loop
\* runs, the words of the chunks written, followed by the words in the
\* buffer, are the words of the text read so far, in order; when the script
\* is done the words of the chunks are the words of the text.
ChunkingConservesWords ==
    /\ ch_pc \in {"loop", "done"} =>
           DOMAIN chunk_files = 0..(Cardinality(DOMAIN chunk_files) - 1)
    /\ ch_pc = "loop" =>
           ChunkedWords \o current_chunk = SubSeq(WordsOfText, 1, ch_i)
    /\ ch_pc = "done" => ChunkedWords = WordsOfText
    /\ ch_pc = "exit" => WordsOfText = <<>> /\ DOMAIN chunk_files = {}

\* A text of four words under a limit of 3, cut after its second word: the
\* third word starts the second chunk.
ChunkingConservesWordsWitness ==
    /\ ch_pc = "done"
    /\ limit = 3
    /\ Len(WordsOfText) = 4
    /\ Len(cuts) = 1
    /\ cuts[1].cut_index = 2
    /\ DOMAIN chunk_files = {0, 1}
    /\ split_ws(chunk_files[1]) = SubSeq(WordsOfText, 3, 4)

\* C39: under a limit of at least 1 every chunk written holds at least one
\* word and at most `limit` words, and the chunks written are numbered
\* 0, 1, 2, ... without a gap.
ChunkSizeBound ==
    limit >= 1 =>
        /\ \A k \in DOMAIN chunk_files :
               /\ Len(split_ws(chunk_files[k])) >= 1
               /\ Len(split_ws(chunk_files[k])) <= limit
        /\ DOMAIN chunk_files = 0..(chunk_count - 1)
               \/ (ch_pc = "done" /\ DOMAIN chunk_files = 0..chunk_count)

\* Three words under a limit of 2: a chunk of two words and one of one word.
ChunkSizeBoundWitness ==
    /\ ch_pc = "done"
    /\ limit = 2
    /\ Len(WordsOfText) = 3
    /\ DOMAIN chunk_files = {0, 1}
    /\ Len(split_ws(chunk_files[0])) = 2
    /\ Len(split_ws(chunk_files[1])) = 1

\* The lookback window of a buffer: its last 100 words, or all of it when
\* it is shorter.
Window(chunk) ==
    { p \in DOMAIN chunk : p > Len(chunk) - lookback }

SentenceEnds(chunk) == { p \in Window(chunk) : EndsSentence(chunk[p]) }

\* C40: a buffer that has reached the limit is cut after the last word of
\* the lookback window that ends in '.', '?' or '!', and at its end only if
\* no word of the window does.
ChunkCutPoint ==
    \A c \in DOMAIN cuts :
        IF SentenceEnds(cuts[c].chunk) # {}
        THEN /\ cuts[c].cut_index \in SentenceEnds(cuts[c].chunk)
             /\ \A p \in SentenceEnds(cuts[c].chunk) : p <= cuts[c].cut_index
        ELSE cuts[c].cut_index = Len(cuts[c].chunk)

=============================================================================
